---------------------------- MODULE Spec2Model ----------------------------
(***************************************************************************)
(* A model of the catalog crawl-and-extract pipeline of graph_catalog:     *)
(* the course-dictionary build (create_course_dictionary.py), the summary  *)
(* generation (get_catalog_summary_json.py) and the helpers they share     *)
(* (catalog_util.py).                                                      *)
(*                                                                         *)
(* Python strings are sequences of one-character strings, so that the      *)
(* character-level operations of the code (upper(), replace(), the course  *)
(* code regular expression, urlparse, ...) are computed, not assumed.      *)
(***************************************************************************)
EXTENDS Integers, Sequences, FiniteSets, TLC

(***************************************************************************)
(* Characters and strings                                                  *)
(***************************************************************************)

\* Python's None, as a sequence so that it compares with every string.
None == <<"<None>">>

\* The empty str "".
EmptyStr == <<>>

LowerSeq == <<"a", "b", "c", "d", "e", "f", "g", "h", "i", "j", "k", "l", "m",
              "n", "o", "p", "q", "r", "s", "t", "u", "v", "w", "x", "y", "z">>

UpperSeq == <<"A", "B", "C", "D", "E", "F", "G", "H", "I", "J", "K", "L", "M",
              "N", "O", "P", "Q", "R", "S", "T", "U", "V", "W", "X", "Y", "Z">>

DigitSeq == <<"0", "1", "2", "3", "4", "5", "6", "7", "8", "9">>

Range(f) == {f[i] : i \in DOMAIN f}

LowerLetters == Range(LowerSeq)

UpperLetters == Range(UpperSeq)

Digits == Range(DigitSeq)

\* The characters of the model in ASCII order (the order sorted() compares by).
Ascii == <<"\t", "\n", " ", "#", "(", ")", ",", "-", ".", "/">> \o DigitSeq
         \o <<":", "?">> \o UpperSeq \o <<"_">> \o LowerSeq \o <<"|">>

Ord(c) == CHOOSE i \in DOMAIN Ascii : Ascii[i] = c

IndexIn(seq, c) == CHOOSE i \in DOMAIN seq : seq[i] = c

\* str.upper() and str.lower(), character by character.
CharUpper(c) == IF c \in LowerLetters THEN UpperSeq[IndexIn(LowerSeq, c)] ELSE c

CharLower(c) == IF c \in UpperLetters THEN LowerSeq[IndexIn(UpperSeq, c)] ELSE c

str_upper(s) == [i \in 1..Len(s) |-> CharUpper(s[i])]

str_lower(s) == [i \in 1..Len(s) |-> CharLower(s[i])]

\* s.replace(c, '') for a one-character c.
str_remove(s, c) == SelectSeq(s, LAMBDA x : x # c)

\* needle in s
str_contains(s, needle) ==
    \E i \in 1..(Len(s) - Len(needle) + 1) :
        SubSeq(s, i, i + Len(needle) - 1) = needle

\* s.startswith(prefix)
str_startswith(s, prefix) ==
    Len(s) >= Len(prefix) /\ SubSeq(s, 1, Len(prefix)) = prefix

\* a < b for Python str (lexicographic by code point).
RECURSIVE str_lt(_, _)
str_lt(a, b) ==
    IF b = <<>> THEN FALSE
    ELSE IF a = <<>> THEN TRUE
    ELSE IF a[1] # b[1] THEN Ord(a[1]) < Ord(b[1])
    ELSE str_lt(Tail(a), Tail(b))

\* \s of the re module, over the characters of the model.
IsSpace(c) == c \in {" ", "\t", "\n"}

\* \w of the re module.
IsWordChar(c) == c \in UpperLetters \cup LowerLetters \cup Digits \cup {"_"}

\* \b at position i of s (between s[i-1] and s[i]).
WordBoundary(s, i) ==
    LET before == i > 1 /\ IsWordChar(s[i - 1])
        after == i <= Len(s) /\ IsWordChar(s[i])
    IN before # after

(***************************************************************************)
(* The course-code pattern r'\b([A-Z]{3,4}[-\s]?\d{3}[A-Z]?)\b'            *)
(***************************************************************************)

MinLetters == 3

MaxLetters == 4

NumDigits == 3

AllIn(s, from, to, set) == \A k \in from..to : k <= Len(s) /\ s[k] \in set

\* One way of matching the pattern at i: n letters, sep (0 or 1) separator
\* characters, NumDigits digits, trail (0 or 1) letters, word boundaries at
\* both ends.
PatternMatches(s, i, n, sep, trail) ==
    LET d == i + n + sep
        e == d + NumDigits + trail
    IN /\ WordBoundary(s, i)
       /\ AllIn(s, i, i + n - 1, UpperLetters)
       /\ sep = 1 => (i + n <= Len(s) /\ (s[i + n] = "-" \/ IsSpace(s[i + n])))
       /\ AllIn(s, d, d + NumDigits - 1, Digits)
       /\ trail = 1 => AllIn(s, e - 1, e - 1, UpperLetters)
       /\ WordBoundary(s, e)

\* The ways of matching, ranked as the backtracking matcher tries them: greedy
\* in the letters, then in the separator, then in the trailing letter.
PatternWays == {<<n, sep, trail>> : n \in MinLetters..MaxLetters,
                                    sep \in {0, 1}, trail \in {0, 1}}

WayRank(w) == 4 * w[1] + 2 * w[2] + w[3]

\* The position after the match that starts at i, or 0 when none does.
MatchEnd(s, i) ==
    LET ok == {w \in PatternWays : PatternMatches(s, i, w[1], w[2], w[3])}
    IN IF ok = {} THEN 0
       ELSE LET w == CHOOSE x \in ok : \A y \in ok : WayRank(y) <= WayRank(x)
            IN i + w[1] + w[2] + NumDigits + w[3]

\* re.findall(pattern, s): the non-overlapping matches, scanning left to right.
RECURSIVE FindAllFrom(_, _)
FindAllFrom(s, i) ==
    IF i > Len(s) THEN <<>>
    ELSE LET e == MatchEnd(s, i)
         IN IF e > 0 THEN <<SubSeq(s, i, e - 1)>> \o FindAllFrom(s, e)
            ELSE FindAllFrom(s, i + 1)

re_findall(s) == FindAllFrom(s, 1)

(***************************************************************************)
(* The course dictionary: a Python dict, i.e. an insertion-ordered mapping *)
(* course_id -> course_title, as the sequence of its items.                *)
(***************************************************************************)

EmptyDict == <<>>

DictKeys(d) == [i \in 1..Len(d) |-> d[i].id]

DictHas(d, k) == \E i \in 1..Len(d) : d[i].id = k

\* d.get(k, default)
DictGet(d, k, default) ==
    IF DictHas(d, k) THEN d[CHOOSE i \in 1..Len(d) : d[i].id = k].title
    ELSE default

\* d[k] = v: a present key keeps its position, a new key goes last.
DictSet(d, k, v) ==
    IF DictHas(d, k)
    THEN [i \in 1..Len(d) |-> IF d[i].id = k THEN [id |-> k, title |-> v] ELSE d[i]]
    ELSE Append(d, [id |-> k, title |-> v])

(***************************************************************************)
(* Prerequisite Resolver                                                   *)
(***************************************************************************)

\* match.replace(' ', '').replace('-', '')
normalize_token(match) == str_remove(str_remove(match, " "), "-")

\* course_id.replace(' ', '').replace('-', '').upper()
normalize_dict_id(course_id) == str_upper(str_remove(str_remove(course_id, " "), "-"))

\* Faulty variants of the inner loop: one appends the normalized token in
\* place of the dictionary key, one runs on after the first hit (no break).
NormalizedFormFrom(normalized, keys, k) ==
    IF \E i \in k..Len(keys) : normalized = normalize_dict_id(keys[i])
    THEN <<normalized>>
    ELSE <<>>

EveryKeyFrom(normalized, keys, k) ==
    SelectSeq(SubSeq(keys, k, Len(keys)), LAMBDA x : normalized = normalize_dict_id(x))

\* The inner loop of parse_prerequisite_courses: the first key, from index k
\* on, with the token's normalized form; <<>> when the loop ends without break.
RECURSIVE FirstKeyFrom(_, _, _)
FirstKeyFrom(normalized, keys, k) ==
    IF k > Len(keys) THEN <<>>
    ELSE IF normalized = normalize_dict_id(keys[k]) THEN <<keys[k]>>
    ELSE FirstKeyFrom(normalized, keys, k + 1)

RECURSIVE ParseLoop(_, _, _)
ParseLoop(matches, m, course_dict) ==
    IF m > Len(matches) THEN <<>>
    ELSE FirstKeyFrom(normalize_token(matches[m]), DictKeys(course_dict), 1)
         \o ParseLoop(matches, m + 1, course_dict)

parse_prerequisite_courses(prereq_string, course_dict) ==
    IF prereq_string = None \/ prereq_string = EmptyStr THEN <<>>
    ELSE ParseLoop(re_findall(str_upper(prereq_string)), 1, course_dict)

\* A faulty variant of the inner loop below: it never looks at seen.
FirstKeyAnySeen(normalized, keys, k, seen) == FirstKeyFrom(normalized, keys, k)

\* The inner loop of extract_course_ids_from_program_requirements: the first
\* key, from index k on, with the token's normalized form that is not in seen.
RECURSIVE FirstUnseenKeyFrom(_, _, _, _)
FirstUnseenKeyFrom(normalized, keys, k, seen) ==
    IF k > Len(keys) THEN <<>>
    ELSE IF normalized = normalize_dict_id(keys[k]) /\ keys[k] \notin seen
         THEN <<keys[k]>>
    ELSE FirstUnseenKeyFrom(normalized, keys, k + 1, seen)

RECURSIVE ExtractLoop(_, _, _, _)
ExtractLoop(matches, m, course_dict, found_courses) ==
    IF m > Len(matches) THEN found_courses
    ELSE ExtractLoop(matches, m + 1, course_dict,
                     found_courses \o FirstUnseenKeyFrom(normalize_token(matches[m]),
                                                         DictKeys(course_dict), 1,
                                                         Range(found_courses)))

\* The token/match part of extract_course_ids_from_program_requirements, on
\* the page's visible text.
extract_ids_from_text(page_text, course_dict) ==
    ExtractLoop(re_findall(str_upper(page_text)), 1, course_dict, <<>>)

(***************************************************************************)
(* URLs (urllib.parse, as far as the pipeline uses it)                      *)
(***************************************************************************)

\* s.strip()
RECURSIVE str_lstrip(_)
str_lstrip(s) == IF s # <<>> /\ IsSpace(s[1]) THEN str_lstrip(Tail(s)) ELSE s

RECURSIVE str_rstrip(_)
str_rstrip(s) ==
    IF s # <<>> /\ IsSpace(s[Len(s)]) THEN str_rstrip(SubSeq(s, 1, Len(s) - 1)) ELSE s

str_strip(s) == str_rstrip(str_lstrip(s))

\* The index of the first character of s that is in set, 0 when there is none.
FirstIndexIn(s, set) ==
    IF \E i \in 1..Len(s) : s[i] \in set
    THEN CHOOSE i \in 1..Len(s) : s[i] \in set /\ \A j \in 1..(i - 1) : s[j] \notin set
    ELSE 0

\* s.split(c) for a one-character separator c.
RECURSIVE str_split(_, _)
str_split(s, c) ==
    LET i == FirstIndexIn(s, {c})
    IN IF i = 0 THEN <<s>>
       ELSE <<SubSeq(s, 1, i - 1)>> \o str_split(SubSeq(s, i + 1, Len(s)), c)

\* c.join(parts)
RECURSIVE str_join(_, _)
str_join(parts, c) ==
    IF parts = <<>> THEN <<>>
    ELSE IF Len(parts) = 1 THEN parts[1]
    ELSE parts[1] \o c \o str_join(Tail(parts), c)

SchemeChars == UpperLetters \cup LowerLetters \cup Digits \cup {"-", "."}

\* The last element of a non-empty sequence: seq[-1]
Last(seq) == seq[Len(seq)]

\* s[:i-1] and s[i:] in TLA+ positions; the whole of s and "" when i = 0.
Before(s, i) == IF i = 0 THEN s ELSE SubSeq(s, 1, i - 1)

From(s, i) == IF i = 0 THEN <<>> ELSE SubSeq(s, i, Len(s))

After(s, i) == IF i = 0 THEN <<>> ELSE SubSeq(s, i + 1, Len(s))

\* urlparse(u): scheme (lower-cased), netloc, path, query, fragment.  The
\* steps of urlsplit, each on what the step before left over.
ParseQueryAt(scheme, netloc, rest3, fragment, qm) ==
    [scheme |-> scheme, netloc |-> netloc, path |-> Before(rest3, qm),
     query |-> After(rest3, qm), fragment |-> fragment]

ParseQuery(scheme, netloc, rest3, fragment) ==
    ParseQueryAt(scheme, netloc, rest3, fragment, FirstIndexIn(rest3, {"?"}))

ParseFragmentAt(scheme, netloc, rest2, hash) ==
    ParseQuery(scheme, netloc, Before(rest2, hash), After(rest2, hash))

ParseFragment(scheme, netloc, rest2) ==
    ParseFragmentAt(scheme, netloc, rest2, FirstIndexIn(rest2, {"#"}))

ParseNetlocAt(scheme, afterSlashes, nend) ==
    ParseFragment(scheme, Before(afterSlashes, nend), From(afterSlashes, nend))

ParseNetloc(scheme, rest1, hasNetloc) ==
    IF hasNetloc
    THEN ParseNetlocAt(scheme, SubSeq(rest1, 3, Len(rest1)),
                       FirstIndexIn(SubSeq(rest1, 3, Len(rest1)), {"/", "?", "#"}))
    ELSE ParseFragment(scheme, <<>>, rest1)

ParseRest(scheme, rest1) ==
    ParseNetloc(scheme, rest1, str_startswith(rest1, <<"/", "/">>))

HasScheme(u, colon) ==
    /\ colon > 1
    /\ u[1] \in UpperLetters \cup LowerLetters
    /\ \A k \in 1..(colon - 1) : u[k] \in SchemeChars

ParseScheme(u, colon, hasScheme) ==
    ParseRest(IF hasScheme THEN str_lower(SubSeq(u, 1, colon - 1)) ELSE <<>>,
              IF hasScheme THEN SubSeq(u, colon + 1, Len(u)) ELSE u)

ParseSchemeAt(u, colon) == ParseScheme(u, colon, HasScheme(u, colon))

\* urlsplit first strips leading blanks and drops tabs and newlines.
UrlClean(u) == SelectSeq(str_lstrip(u), LAMBDA c : c \notin {"\t", "\n"})

ParseClean(u) == ParseSchemeAt(u, FirstIndexIn(u, {":"}))

urlparse(u) == ParseClean(UrlClean(u))

HttpSchemes == {<<"h", "t", "t", "p">>, <<"h", "t", "t", "p", "s">>}

\* urlunparse((scheme, netloc, path, "", "", ""))
UnparseNetloc(scheme, netloc, path) ==
    IF netloc # <<>> \/ (scheme \in HttpSchemes /\ ~str_startswith(path, <<"/", "/">>))
    THEN <<"/", "/">> \o netloc
         \o (IF path # <<>> /\ path[1] # "/" THEN <<"/">> ELSE <<>>) \o path
    ELSE path

urlunparse(scheme, netloc, path) ==
    (IF scheme # <<>> THEN scheme \o <<":">> ELSE <<>>) \o UnparseNetloc(scheme, netloc, path)

\* The position of the last "/" of a path, 0 when it has none.
LastSlash(path) ==
    IF "/" \in Range(path)
    THEN CHOOSE i \in 1..Len(path) :
             path[i] = "/" /\ \A j \in (i + 1)..Len(path) : path[j] # "/"
    ELSE 0

DirUpTo(path, last) == IF last = 0 THEN <<>> ELSE SubSeq(path, 1, last)

\* The directory of a base path: the path up to its last "/".
DirOf(path) == DirUpTo(path, LastSlash(path))

QuerySuffix(query) == IF query # <<>> THEN <<"?">> \o query ELSE <<>>

FragmentSuffix(fragment) == IF fragment # <<>> THEN <<"#">> \o fragment ELSE <<>>

\* urljoin(base, href) for the forms of href the pages use: an absolute URL, a
\* "//host/..." reference, a path from the root ("/..."), a path relative to
\* the base's directory, and a reference without a path.
JoinParsed(base, href, b, h) ==
    IF href = <<>> THEN base
    ELSE IF h.scheme # <<>> THEN href
    ELSE IF h.netloc # <<>>
         THEN (IF b.scheme # <<>> THEN b.scheme \o <<":">> ELSE <<>>)
              \o urlunparse(<<>>, h.netloc, h.path)
              \o QuerySuffix(h.query) \o FragmentSuffix(h.fragment)
    ELSE IF h.path = <<>>
         THEN urlunparse(b.scheme, b.netloc, b.path)
              \o QuerySuffix(IF h.query # <<>> THEN h.query ELSE b.query)
              \o FragmentSuffix(h.fragment)
    ELSE urlunparse(b.scheme, b.netloc,
                    IF h.path[1] = "/" THEN h.path ELSE DirOf(b.path) \o h.path)
         \o QuerySuffix(h.query) \o FragmentSuffix(h.fragment)

urljoin(base, href) == JoinParsed(base, href, urlparse(base), urlparse(href))

\* The non-empty segments of a path: [p for p in path.split('/') if p]
path_parts(path) == SelectSeq(str_split(path, "/"), LAMBDA p : p # <<>>)

\* The path of normalize_url: a trailing "/" is added unless the path has one
\* or its last segment contains a dot.
NormalizePath(path) ==
    IF Last(path) # "/" /\ ~str_contains(Last(str_split(path, "/")), <<".">>)
    THEN path \o <<"/">>
    ELSE path

NormalizeParsed(p) ==
    urlunparse(str_lower(p.scheme), str_lower(p.netloc),
               NormalizePath(IF p.path = <<>> THEN <<"/">> ELSE p.path))

normalize_url(u) == NormalizeParsed(urlparse(str_strip(u)))

YearRootOf(p, parts) ==
    p.scheme \o <<":", "/", "/">> \o p.netloc \o <<"/">>
    \o (IF parts = <<>> THEN <<>> ELSE parts[1] \o <<"/">>)

YearRootParsed(p) == YearRootOf(p, path_parts(p.path))

get_year_root(page_url) == YearRootParsed(urlparse(page_url))

s_catalog_summary == <<"c", "a", "t", "a", "l", "o", "g", "_", "s", "u", "m", "m", "a", "r", "y">>

BaseFilenameOf(parts) ==
    IF Len(parts) >= 2 THEN parts[1] \o <<"_">> \o parts[2]
    ELSE IF Len(parts) = 1 THEN parts[1]
    ELSE s_catalog_summary

get_base_filename(catalog_url) == BaseFilenameOf(path_parts(urlparse(catalog_url).path))

get_filename(catalog_url) == get_base_filename(catalog_url)

get_json_filename(catalog_url) == get_filename(catalog_url) \o <<".", "j", "s", "o", "n">>

get_ser_filename(catalog_url) == get_filename(catalog_url) \o <<".", "s", "e", "r">>

\* COURSE_DICT_FILE of create_course_dictionary.py: "course_dictionary.ser"
BUILD_COURSE_DICT_FILE ==
    <<"c", "o", "u", "r", "s", "e", "_", "d", "i", "c", "t", "i", "o", "n", "a", "r", "y",
      ".", "s", "e", "r">>

\* COURSE_DICT_FILE of get_catalog_summary_json.py, from the script's argument.
SUMMARY_COURSE_DICT_FILE(catalog_url) == get_ser_filename(catalog_url)

\* sorted(set of str)
RECURSIVE sorted(_)
sorted(set) ==
    IF set = {} THEN <<>>
    ELSE LET m == CHOOSE x \in set : \A y \in set : y = x \/ str_lt(x, y)
         IN <<m>> \o sorted(set \ {m})

(***************************************************************************)
(* Page markup.  A fetched page is a record                                *)
(*   regions  : the container elements a sidebar selector can match, in     *)
(*              document order, each [tag, id, class, role];                *)
(*   anchors  : the <a> elements in document order, each [text, href,       *)
(*              region, ul, li]: href is None without an href attribute,    *)
(*              region is the index of the enclosing region (0: none), ul   *)
(*              the index of the enclosing <ul> among the region's <ul>s    *)
(*              (0: none) and li the index of the enclosing direct <li>     *)
(*              child of that <ul> (0: none);                               *)
(*   h1, title: the text of the first <h1> and of <title>, or None;         *)
(*   lis      : the <li> elements that enclose course headings, each the    *)
(*              sequence of its <span>s [string, sibling, parent_text]:     *)
(*              sibling is the span's next sibling when that is a text      *)
(*              node (else None), parent_text the text of its parent;       *)
(*   headings : the <h3 class="maryann_course_title"> elements in document  *)
(*              order, each [text, li] with li the index of the nearest     *)
(*              enclosing <li> in lis (0: none);                            *)
(*   text     : soup.get_text(), the visible text of the whole page.        *)
(***************************************************************************)

\* fetch_html's None, an empty body, and an exception leaving fetch_html.
NoneHtml == [kind |-> "None"]

EmptyHtml == [kind |-> "empty"]

Raised == [kind |-> "raise"]

\* not html
HtmlIsFalsy(html) == html = NoneHtml \/ html = EmptyHtml

s_sidebar == <<"s", "i", "d", "e", "b", "a", "r">>
s_div == <<"d", "i", "v">>
s_nav == <<"n", "a", "v">>
s_aside == <<"a", "s", "i", "d", "e">>
s_navigation == <<"n", "a", "v", "i", "g", "a", "t", "i", "o", "n">>
s_school == <<"s", "c", "h", "o", "o", "l">>
s_undergraduate == <<"u", "n", "d", "e", "r", "g", "r", "a", "d", "u", "a", "t", "e">>
s_graduate == <<"g", "r", "a", "d", "u", "a", "t", "e">>
s_Program_Requirements == <<"P", "r", "o", "g", "r", "a", "m", " ", "R", "e", "q", "u", "i", "r", "e", "m", "e", "n", "t", "s">>
s_Courses == <<"C", "o", "u", "r", "s", "e", "s">>
s_Unknown_School == <<"U", "n", "k", "n", "o", "w", "n", " ", "S", "c", "h", "o", "o", "l">>
s_Unknown == <<"U", "n", "k", "n", "o", "w", "n">>
s_Not_found == <<"N", "o", "t", " ", "f", "o", "u", "n", "d">>
s_Not_available == <<"N", "o", "t", " ", "a", "v", "a", "i", "l", "a", "b", "l", "e">>
s_pre_requisite == <<"p", "r", "e", "-", "r", "e", "q", "u", "i", "s", "i", "t", "e">>
s_Pre_requisite == <<"P", "r", "e", "-", "r", "e", "q", "u", "i", "s", "i", "t", "e">>

\* a.get_text(strip=True) of an element holding one text node.
get_text_strip(text) == str_strip(text)

\* The index of the first region of the page that satisfies sel, 0 if none:
\* soup.find(tag, ...).
FindRegion(html, sel(_)) ==
    IF \E r \in 1..Len(html.regions) : sel(html.regions[r])
    THEN CHOOSE r \in 1..Len(html.regions) :
             sel(html.regions[r]) /\ \A q \in 1..(r - 1) : ~sel(html.regions[q])
    ELSE 0

SelDivId(e) == e.tag = s_div /\ e.id = s_sidebar
SelNavId(e) == e.tag = s_nav /\ e.id = s_sidebar
SelAsideId(e) == e.tag = s_aside /\ e.id = s_sidebar
SelDivClass(e) == e.tag = s_div /\ e.class = s_sidebar
SelNavClass(e) == e.tag = s_nav /\ e.class = s_sidebar
SelDivRole(e) == e.tag = s_div /\ e.role = s_navigation

\* a or b, for the indexes FindRegion returns.
OrElse(a, b) == IF a # 0 THEN a ELSE b

\* The sidebar of create_course_dictionary.get_sidebar_links: the first
\* selector of the or-chain that finds an element.
ccd_find_sidebar(html) ==
    OrElse(FindRegion(html, SelDivId),
    OrElse(FindRegion(html, SelNavId),
    OrElse(FindRegion(html, SelAsideId),
    OrElse(FindRegion(html, SelDivClass),
    OrElse(FindRegion(html, SelNavClass),
           FindRegion(html, SelDivRole))))))

\* The anchors with an href, in document order: find_all("a", href=True).
AnchorsWithHref(html) == SelectSeq(html.anchors, LAMBDA a : a.href # None)

\* The normalized targets of the anchors of a sidebar that keep(a) accepts.
SidebarTargets(html, page_url, sidebar, keep(_)) ==
    IF sidebar = 0 THEN {}
    ELSE {normalize_url(urljoin(page_url, a.href)) :
            a \in {x \in Range(AnchorsWithHref(html)) : x.region = sidebar /\ keep(x)}}

AnyAnchor(a) == TRUE

SchoolAnchor(a) == str_contains(str_lower(get_text_strip(a.text)), s_school)

\* get_sidebar_links of create_course_dictionary.py
ccd_get_sidebar_links(html, page_url) ==
    IF HtmlIsFalsy(html) THEN {}
    ELSE SidebarTargets(html, page_url, ccd_find_sidebar(html), AnyAnchor)

\* get_sidebar_links of catalog_util.py
util_get_sidebar_links(html, page_url) ==
    IF HtmlIsFalsy(html) THEN {}
    ELSE SidebarTargets(html, page_url, FindRegion(html, SelDivId), SchoolAnchor)

\* path.split('/') without the empty last piece a trailing "/" leaves.
SectionSegments(segs) ==
    IF Len(segs) > 1 /\ Last(segs) = <<>> THEN SubSeq(segs, 1, Len(segs) - 1) ELSE segs

SectionSegmentsMatch(segs, include_grad) ==
    /\ Len(segs) >= 3
    /\ Last(segs) # <<>>
    /\ \/ segs[Len(segs) - 1] = s_undergraduate
       \/ include_grad /\ segs[Len(segs) - 1] = s_graduate

\* re.search(r"/(?:undergraduate|graduate)/([^/]+)/?$", path), the graduate
\* alternative only with include_grad.
SectionPatternMatches(path, include_grad) ==
    SectionSegmentsMatch(SectionSegments(str_split(path, "/")), include_grad)

\* urljoin(page_url, a["href"]) of every anchor with an href.
AbsoluteHrefs(html, page_url) ==
    {urljoin(page_url, a.href) : a \in Range(AnchorsWithHref(html))}

\* discover_candidate_school_urls of create_course_dictionary.py
ccd_discover_candidate_school_urls(html, page_url, include_grad) ==
    IF HtmlIsFalsy(html) THEN <<>>
    ELSE sorted({normalize_url(abs) :
                   abs \in {x \in AbsoluteHrefs(html, page_url) :
                              /\ str_startswith(x, get_year_root(page_url))
                              /\ SectionPatternMatches(urlparse(x).path, include_grad)}})

\* discover_candidate_school_urls of catalog_util.py
util_discover_candidate_school_urls(html, page_url) ==
    IF HtmlIsFalsy(html) THEN <<>>
    ELSE sorted({normalize_url(abs) :
                   abs \in {x \in AbsoluteHrefs(html, page_url) :
                              str_startswith(x, get_year_root(page_url))}})

\* [u for u in urls if normalize_url(u) in sidebar_links]
filter_by_links(urls, sidebar_links) ==
    SelectSeq(urls, LAMBDA u : normalize_url(u) \in sidebar_links)

\* The first anchor of each <li> among anchors that lie in <li>s.
FirstOfEachLi(inUl) ==
    SelectSeq([i \in 1..Len(inUl) |->
                  [a |-> inUl[i],
                   first |-> \A j \in 1..(i - 1) : inUl[j].li # inUl[i].li]],
              LAMBDA x : x.first)

NavLinks(picked, page_url) ==
    [i \in 1..Len(picked) |->
        [text |-> get_text_strip(picked[i].a.text),
         url |-> normalize_url(urljoin(page_url, picked[i].a.href))]]

UlLinks(html, page_url, sidebar) ==
    IF sidebar = 0 THEN <<>>
    ELSE NavLinks(FirstOfEachLi(SelectSeq(AnchorsWithHref(html),
                      LAMBDA a : a.region = sidebar /\ a.ul = 1 /\ a.li > 0)),
                  page_url)

\* get_sidebar_ul_links: for each direct <li> of the first <ul> of
\* div#sidebar, its first anchor with an href.
get_sidebar_ul_links(html, page_url) ==
    IF HtmlIsFalsy(html) THEN <<>> ELSE UlLinks(html, page_url, FindRegion(html, SelDivId))

\* A faulty variant of FirstTarget: the target of the last hit.
LastTarget(hits, page_url) ==
    IF hits = <<>> THEN None ELSE urljoin(page_url, hits[Len(hits)].href)

\* A faulty variant of FirstTarget: the page itself when there is no hit.
PageWhenNoTarget(hits, page_url) ==
    IF hits = <<>> THEN page_url ELSE urljoin(page_url, hits[1].href)

\* The target of the first hit: the loop returns at its first match.
FirstTarget(hits, page_url) ==
    IF hits = <<>> THEN None ELSE urljoin(page_url, hits[1].href)

\* find_link: the target of the first anchor whose text contains the
\* substring, case-insensitively; None when there is none.
find_link(html, page_url, link_text_substring) ==
    IF HtmlIsFalsy(html) THEN None
    ELSE FirstTarget(SelectSeq(AnchorsWithHref(html),
                         LAMBDA a : str_contains(str_lower(get_text_strip(a.text)),
                                                 str_lower(link_text_substring))),
                     page_url)

(***************************************************************************)
(* Course Page Parser                                                      *)
(***************************************************************************)

\* A call that never returns.
Hang == <<"<hang>">>

\* One pass of re.sub(r'\([^()]*\)', '', text), from position i.
RECURSIVE SubInnermostFrom(_, _)
SubInnermostFrom(s, i) ==
    IF i > Len(s) THEN <<>>
    ELSE LET rest == SubSeq(s, i + 1, Len(s))
             j == FirstIndexIn(rest, {"(", ")"})
         IN IF s[i] = "(" /\ j # 0 /\ rest[j] = ")"
            THEN SubInnermostFrom(s, i + j + 1)
            ELSE <<s[i]>> \o SubInnermostFrom(s, i + 1)

\* A faulty variant of CollapseSpaces: it leaves the whitespace as it is.
KeepSpaces(s) == s

\* re.sub(r'\s+', ' ', text)
RECURSIVE CollapseSpaces(_)
CollapseSpaces(s) ==
    IF s = <<>> THEN <<>>
    ELSE IF IsSpace(s[1])
         THEN IF Len(s) > 1 /\ IsSpace(s[2]) THEN CollapseSpaces(Tail(s))
              ELSE <<" ">> \o CollapseSpaces(Tail(s))
    ELSE <<s[1]>> \o CollapseSpaces(Tail(s))

\* remove_parenthetical: the while loop runs as long as '(' is in the text; a
\* pass that removes nothing leaves the text as it is, and the loop never ends.
RECURSIVE remove_parenthetical(_)
remove_parenthetical(text) ==
    IF "(" \notin Range(text) THEN str_strip(CollapseSpaces(text))
    ELSE LET t2 == SubInnermostFrom(text, 1)
         IN IF t2 = text THEN Hang ELSE remove_parenthetical(t2)

RECURSIVE SkipSpaces(_, _)
SkipSpaces(s, i) == IF i <= Len(s) /\ IsSpace(s[i]) THEN SkipSpaces(s, i + 1) ELSE i

\* The position after an optional character c at position e.
SkipOptional(s, e, c) == IF e <= Len(s) /\ CharLower(s[e]) = c THEN e + 1 ELSE e

\* The end of a match of r'Pre-requisites?:?\s*' (ignoring case) at i, 0 if
\* the pattern does not match there.
LabelMatchEnd(s, i) ==
    IF /\ i >= 1
       /\ i + Len(s_pre_requisite) - 1 <= Len(s)
       /\ str_lower(SubSeq(s, i, i + Len(s_pre_requisite) - 1)) = s_pre_requisite
    THEN SkipSpaces(s, SkipOptional(s, SkipOptional(s, i + Len(s_pre_requisite), "s"), ":"))
    ELSE 0

\* The start of the first match of the label pattern at or after i, 0 if none.
FirstLabelFrom(s, i) ==
    IF \E k \in i..Len(s) : LabelMatchEnd(s, k) # 0
    THEN CHOOSE k \in i..Len(s) :
             LabelMatchEnd(s, k) # 0 /\ \A j \in i..(k - 1) : LabelMatchEnd(s, j) = 0
    ELSE 0

\* text.split('\n')[0].strip()
FirstLine(text) == str_strip(str_split(text, "\n")[1])

\* parts[1] of re.split(label, t): from the end e of the first label to the
\* start b of the next one (0: there is none).
PartUpTo(t, e, b) == str_strip(SubSeq(t, e, IF b = 0 THEN Len(t) ELSE b - 1))

PartAfter(t, e) == PartUpTo(t, e, FirstLabelFrom(t, e))

PartsOne(t, a) == IF a = 0 THEN EmptyStr ELSE FirstLine(PartAfter(t, LabelMatchEnd(t, a)))

\* The prerequisite text of a label span: the next sibling when it is text,
\* else parts[1] of the parent's text split on the label pattern, up to the
\* first line break.
prereq_text_of(span) ==
    IF span.sibling # None /\ span.sibling # EmptyStr THEN str_strip(span.sibling)
    ELSE IF str_contains(span.parent_text, s_Pre_requisite)
         THEN PartsOne(span.parent_text, FirstLabelFrom(span.parent_text, 1))
    ELSE EmptyStr

\* In place of a course entry: the parser never got past this heading.
HangEntry == [course_id |-> Hang, course_title |-> Hang, prerequisites |-> Hang]

\* A sequence of course entries that ends in a call that never returned.
Hung(course_data) == \E k \in 1..Len(course_data) : course_data[k].course_id = Hang

\* The spans of the heading's <li> whose string contains 'pre-requisite'.
LabelSpans(html, h3) ==
    IF h3.li = 0 THEN <<>>
    ELSE SelectSeq(html.lis[h3.li],
                   LAMBDA x : x.string # None
                              /\ str_contains(str_lower(x.string), s_pre_requisite))

FirstSpanText(spans) == IF spans = <<>> THEN EmptyStr ELSE prereq_text_of(spans[1])

OrNone(text) == IF text # EmptyStr THEN text ELSE None

\* parts = cleaned_title.split(' ', 1), with sp the position of the first ' '.
SplitTitle(cleaned_title, sp, prereq_text) ==
    [course_id |-> str_strip(Before(cleaned_title, sp)),
     course_title |-> str_strip(After(cleaned_title, sp)),
     prerequisites |-> OrNone(prereq_text)]

CourseOfCleaned(html, h3, cleaned_title) ==
    IF cleaned_title = Hang THEN <<HangEntry>>
    ELSE IF cleaned_title = EmptyStr THEN <<>>
    ELSE <<SplitTitle(cleaned_title, FirstIndexIn(cleaned_title, {" "}),
                      FirstSpanText(LabelSpans(html, h3)))>>

CourseOfTitle(html, h3, title) ==
    IF title = EmptyStr THEN <<>> ELSE CourseOfCleaned(html, h3, remove_parenthetical(title))

\* The course entry of one course heading; <<>> when the heading is skipped.
course_of_heading(html, h3) == CourseOfTitle(html, h3, get_text_strip(h3.text))

CoursesFrom(html, k, c, rest) == IF Hung(c) THEN c ELSE c \o rest

RECURSIVE HeadingsLoop(_, _)
HeadingsLoop(html, k) ==
    IF k > Len(html.headings) THEN <<>>
    ELSE CoursesFrom(html, k, course_of_heading(html, html.headings[k]),
                     HeadingsLoop(html, k + 1))

\* A faulty variant of extract_course_titles: for a page it could not fetch
\* it makes up one entry where the code returns [].
extract_with_placeholder(html) ==
    IF HtmlIsFalsy(html)
    THEN <<[course_id |-> s_Unknown, course_title |-> EmptyStr, prerequisites |-> None]>>
    ELSE HeadingsLoop(html, 1)

\* extract_course_titles: the course entries of a courses page; the entries
\* end in HangEntry when the call never returns.
extract_course_titles(html) ==
    IF HtmlIsFalsy(html) THEN <<>> ELSE HeadingsLoop(html, 1)

\* extract_school_name: the first <h1>, else the <title> up to a "|", else
\* "Unknown School".
extract_school_name(html) ==
    IF HtmlIsFalsy(html) THEN s_Unknown_School
    ELSE IF html.h1 # None THEN get_text_strip(html.h1)
    ELSE IF html.title # None
         THEN LET title_text == get_text_strip(html.title)
              IN IF "|" \in Range(title_text)
                 THEN str_strip(str_split(title_text, "|")[1])
                 ELSE title_text
    ELSE s_Unknown_School

\* extract_course_ids_from_program_requirements
extract_course_ids_from_program_requirements(html, course_dict) ==
    IF HtmlIsFalsy(html) THEN <<>>
    ELSE extract_ids_from_text(html.text, course_dict)

(***************************************************************************)
(* The catalog sites the model crawls                                      *)
(***************************************************************************)

\* "http://c.e/25/"
URL_ROOT == <<"h", "t", "t", "p", ":", "/", "/", "c", ".", "e", "/", "2", "5", "/">>

\* "http://c.e/25/undergraduate/arts/"
URL_ARTS == <<"h", "t", "t", "p", ":", "/", "/", "c", ".", "e", "/", "2", "5", "/", "u", "n", "d", "e", "r", "g", "r", "a", "d", "u", "a", "t", "e", "/", "a", "r", "t", "s", "/">>

\* "http://c.e/25/undergraduate/nursing/"
URL_NURSING == <<"h", "t", "t", "p", ":", "/", "/", "c", ".", "e", "/", "2", "5", "/", "u", "n", "d", "e", "r", "g", "r", "a", "d", "u", "a", "t", "e", "/", "n", "u", "r", "s", "i", "n", "g", "/">>

\* "http://c.e/25/undergraduate/arts/bio/"
URL_BIO == <<"h", "t", "t", "p", ":", "/", "/", "c", ".", "e", "/", "2", "5", "/", "u", "n", "d", "e", "r", "g", "r", "a", "d", "u", "a", "t", "e", "/", "a", "r", "t", "s", "/", "b", "i", "o", "/">>

\* "http://c.e/25/undergraduate/arts/bio/reqs"
URL_BIO_REQS == <<"h", "t", "t", "p", ":", "/", "/", "c", ".", "e", "/", "2", "5", "/", "u", "n", "d", "e", "r", "g", "r", "a", "d", "u", "a", "t", "e", "/", "a", "r", "t", "s", "/", "b", "i", "o", "/", "r", "e", "q", "s">>

\* "http://c.e/25/undergraduate/arts/bio/courses"
URL_BIO_COURSES == <<"h", "t", "t", "p", ":", "/", "/", "c", ".", "e", "/", "2", "5", "/", "u", "n", "d", "e", "r", "g", "r", "a", "d", "u", "a", "t", "e", "/", "a", "r", "t", "s", "/", "b", "i", "o", "/", "c", "o", "u", "r", "s", "e", "s">>

\* "http://c.e/25/undergraduate/arts/chem/"
URL_CHEM == <<"h", "t", "t", "p", ":", "/", "/", "c", ".", "e", "/", "2", "5", "/", "u", "n", "d", "e", "r", "g", "r", "a", "d", "u", "a", "t", "e", "/", "a", "r", "t", "s", "/", "c", "h", "e", "m", "/">>

\* "http://c.e/25/undergraduate/arts/chem/reqs"
URL_CHEM_REQS == <<"h", "t", "t", "p", ":", "/", "/", "c", ".", "e", "/", "2", "5", "/", "u", "n", "d", "e", "r", "g", "r", "a", "d", "u", "a", "t", "e", "/", "a", "r", "t", "s", "/", "c", "h", "e", "m", "/", "r", "e", "q", "s">>

\* "http://c.e/25/undergraduate/arts/chem/courses"
URL_CHEM_COURSES == <<"h", "t", "t", "p", ":", "/", "/", "c", ".", "e", "/", "2", "5", "/", "u", "n", "d", "e", "r", "g", "r", "a", "d", "u", "a", "t", "e", "/", "a", "r", "t", "s", "/", "c", "h", "e", "m", "/", "c", "o", "u", "r", "s", "e", "s">>

\* "http://c.e/25/undergraduate/arts/phys/"
URL_PHYS == <<"h", "t", "t", "p", ":", "/", "/", "c", ".", "e", "/", "2", "5", "/", "u", "n", "d", "e", "r", "g", "r", "a", "d", "u", "a", "t", "e", "/", "a", "r", "t", "s", "/", "p", "h", "y", "s", "/">>

\* "http://c.e/25/undergraduate/arts/phys/reqs"
URL_PHYS_REQS == <<"h", "t", "t", "p", ":", "/", "/", "c", ".", "e", "/", "2", "5", "/", "u", "n", "d", "e", "r", "g", "r", "a", "d", "u", "a", "t", "e", "/", "a", "r", "t", "s", "/", "p", "h", "y", "s", "/", "r", "e", "q", "s">>

\* "http://c.e/25/undergraduate/nursing/bs/"
URL_BS == <<"h", "t", "t", "p", ":", "/", "/", "c", ".", "e", "/", "2", "5", "/", "u", "n", "d", "e", "r", "g", "r", "a", "d", "u", "a", "t", "e", "/", "n", "u", "r", "s", "i", "n", "g", "/", "b", "s", "/">>

\* "http://c.e/25/undergraduate/nursing/bs/reqs"
URL_BS_REQS == <<"h", "t", "t", "p", ":", "/", "/", "c", ".", "e", "/", "2", "5", "/", "u", "n", "d", "e", "r", "g", "r", "a", "d", "u", "a", "t", "e", "/", "n", "u", "r", "s", "i", "n", "g", "/", "b", "s", "/", "r", "e", "q", "s">>

\* "http://c.e/25/undergraduate/nursing/bs/courses"
URL_BS_COURSES == <<"h", "t", "t", "p", ":", "/", "/", "c", ".", "e", "/", "2", "5", "/", "u", "n", "d", "e", "r", "g", "r", "a", "d", "u", "a", "t", "e", "/", "n", "u", "r", "s", "i", "n", "g", "/", "b", "s", "/", "c", "o", "u", "r", "s", "e", "s">>

\* "http://c.e/25/graduate/nursing/"
URL_GRAD == <<"h", "t", "t", "p", ":", "/", "/", "c", ".", "e", "/", "2", "5", "/", "g", "r", "a", "d", "u", "a", "t", "e", "/", "n", "u", "r", "s", "i", "n", "g", "/">>

\* "http://c.e/25/graduate/nursing/bs/"
URL_GRAD_BS == <<"h", "t", "t", "p", ":", "/", "/", "c", ".", "e", "/", "2", "5", "/", "g", "r", "a", "d", "u", "a", "t", "e", "/", "n", "u", "r", "s", "i", "n", "g", "/", "b", "s", "/">>

\* "http://c.e/25/graduate/nursing/bs/reqs"
URL_GRAD_BS_REQS == <<"h", "t", "t", "p", ":", "/", "/", "c", ".", "e", "/", "2", "5", "/", "g", "r", "a", "d", "u", "a", "t", "e", "/", "n", "u", "r", "s", "i", "n", "g", "/", "b", "s", "/", "r", "e", "q", "s">>

\* "http://c.e/25/graduate/nursing/bs/courses"
URL_GRAD_BS_COURSES == <<"h", "t", "t", "p", ":", "/", "/", "c", ".", "e", "/", "2", "5", "/", "g", "r", "a", "d", "u", "a", "t", "e", "/", "n", "u", "r", "s", "i", "n", "g", "/", "b", "s", "/", "c", "o", "u", "r", "s", "e", "s">>

\* The root page of the one-school site: one school link in the sidebar.
PAGE_ROOT_ONE ==
    [kind |-> "page",
     regions |-> <<[tag |-> <<"d", "i", "v">>, id |-> <<"s", "i", "d", "e", "b", "a", "r">>, class |-> <<>>, role |-> <<>>]>>,
     anchors |-> <<[text |-> <<"S", "c", "h", "o", "o", "l", " ", "o", "f", " ", "A", "r", "t", "s">>,
                 href |-> <<"/", "2", "5", "/", "u", "n", "d", "e", "r", "g", "r", "a", "d", "u", "a", "t", "e", "/", "a", "r", "t", "s">>,
                 region |-> 1, ul |-> 1, li |-> 1],
                  [text |-> <<"H", "o", "m", "e">>,
                 href |-> <<"h", "t", "t", "p", ":", "/", "/", "c", ".", "e", "/", "2", "5", "/">>,
                 region |-> 0, ul |-> 0, li |-> 0]>>,
     h1 |-> <<"C", "a", "t", "a", "l", "o", "g">>,
     title |-> None,
     lis |-> <<>>,
     headings |-> <<>>,
     text |-> <<"C", "a", "t", "a", "l", "o", "g", " ", "S", "c", "h", "o", "o", "l", " ", "o", "f", " ", "A", "r", "t", "s", " ", "H", "o", "m", "e">>]

\* The school page of the one-school site: one program link.
PAGE_ARTS_ONE ==
    [kind |-> "page",
     regions |-> <<[tag |-> <<"d", "i", "v">>, id |-> <<"s", "i", "d", "e", "b", "a", "r">>, class |-> <<>>, role |-> <<>>]>>,
     anchors |-> <<[text |-> <<" ", "B", "i", "o", "l", "o", "g", "y", " ">>,
                 href |-> <<"b", "i", "o">>,
                 region |-> 1, ul |-> 1, li |-> 1]>>,
     h1 |-> <<"S", "c", "h", "o", "o", "l", " ", "o", "f", " ", "A", "r", "t", "s">>,
     title |-> None,
     lis |-> <<>>,
     headings |-> <<>>,
     text |-> <<"S", "c", "h", "o", "o", "l", " ", "o", "f", " ", "A", "r", "t", "s", " ", "B", "i", "o", "l", "o", "g", "y">>]

\* A program page with a 'Program Requirements' and a 'Courses' link.
PAGE_BIO ==
    [kind |-> "page",
     regions |-> <<>>,
     anchors |-> <<[text |-> <<"P", "r", "o", "g", "r", "a", "m", " ", "R", "e", "q", "u", "i", "r", "e", "m", "e", "n", "t", "s">>,
                 href |-> <<"r", "e", "q", "s">>,
                 region |-> 0, ul |-> 0, li |-> 0],
                  [text |-> <<"C", "o", "u", "r", "s", "e", "s">>,
                 href |-> <<"c", "o", "u", "r", "s", "e", "s">>,
                 region |-> 0, ul |-> 0, li |-> 0]>>,
     h1 |-> <<"B", "i", "o", "l", "o", "g", "y">>,
     title |-> None,
     lis |-> <<>>,
     headings |-> <<>>,
     text |-> <<"B", "i", "o", "l", "o", "g", "y", " ", "P", "r", "o", "g", "r", "a", "m", " ", "R", "e", "q", "u", "i", "r", "e", "m", "e", "n", "t", "s", " ", "C", "o", "u", "r", "s", "e", "s">>]

\* A requirements page that names BIO 101 twice and BIO-102 once.
PAGE_BIO_REQS ==
    [kind |-> "page",
     regions |-> <<>>,
     anchors |-> <<>>,
     h1 |-> <<"R", "e", "q", "u", "i", "r", "e", "m", "e", "n", "t", "s">>,
     title |-> None,
     lis |-> <<>>,
     headings |-> <<>>,
     text |-> <<"T", "a", "k", "e", " ", "B", "I", "O", " ", "1", "0", "1", ",", " ", "b", "i", "o", "-", "1", "0", "2", " ", "a", "n", "d", " ", "B", "I", "O", " ", "1", "0", "1", ".">>]

\* A courses page with two course headings, the second listing the first as prerequisite.
PAGE_BIO_COURSES ==
    [kind |-> "page",
     regions |-> <<>>,
     anchors |-> <<>>,
     h1 |-> None,
     title |-> None,
     lis |-> <<<<>>,
              <<[string |-> <<"P", "r", "e", "-", "r", "e", "q", "u", "i", "s", "i", "t", "e", "s", ":">>,
                sibling |-> <<" ", "B", "I", "O", " ", "1", "0", "1">>,
                parent_text |-> <<"P", "r", "e", "-", "r", "e", "q", "u", "i", "s", "i", "t", "e", "s", ":", " ", "B", "I", "O", " ", "1", "0", "1">>]>>>>,
     headings |-> <<[text |-> <<"B", "I", "O", "-", "1", "0", "1", " ", "C", "e", "l", "l", "s", " ", "(", "3", ")">>, li |-> 1],
                   [text |-> <<"B", "I", "O", "-", "1", "0", "2", " ", "G", "e", "n", "e", "s">>, li |-> 2]>>,
     text |-> <<"B", "I", "O", "-", "1", "0", "1", " ", "C", "e", "l", "l", "s", " ", "(", "3", ")", " ", "B", "I", "O", "-", "1", "0", "2", " ", "G", "e", "n", "e", "s", " ", "P", "r", "e", "-", "r", "e", "q", "u", "i", "s", "i", "t", "e", "s", ":", " ", "B", "I", "O", " ", "1", "0", "1">>]

\* The root page of the two-school site: two sidebar links (one whose text lacks 'school') and a footer link.
PAGE_ROOT_TWO ==
    [kind |-> "page",
     regions |-> <<[tag |-> <<"d", "i", "v">>, id |-> <<"s", "i", "d", "e", "b", "a", "r">>, class |-> <<>>, role |-> <<>>]>>,
     anchors |-> <<[text |-> <<"S", "c", "h", "o", "o", "l", " ", "o", "f", " ", "A", "r", "t", "s">>,
                 href |-> <<"/", "2", "5", "/", "u", "n", "d", "e", "r", "g", "r", "a", "d", "u", "a", "t", "e", "/", "a", "r", "t", "s">>,
                 region |-> 1, ul |-> 1, li |-> 1],
                  [text |-> <<"N", "u", "r", "s", "i", "n", "g">>,
                 href |-> <<"/", "2", "5", "/", "u", "n", "d", "e", "r", "g", "r", "a", "d", "u", "a", "t", "e", "/", "n", "u", "r", "s", "i", "n", "g", "/">>,
                 region |-> 1, ul |-> 1, li |-> 2],
                  [text |-> <<"A", "b", "o", "u", "t">>,
                 href |-> <<"/", "2", "5", "/", "a", "b", "o", "u", "t">>,
                 region |-> 0, ul |-> 0, li |-> 0]>>,
     h1 |-> <<"C", "a", "t", "a", "l", "o", "g">>,
     title |-> None,
     lis |-> <<>>,
     headings |-> <<>>,
     text |-> <<"C", "a", "t", "a", "l", "o", "g", " ", "S", "c", "h", "o", "o", "l", " ", "o", "f", " ", "A", "r", "t", "s", " ", "N", "u", "r", "s", "i", "n", "g", " ", "A", "b", "o", "u", "t">>]

\* A school page without <h1>: three program links.
PAGE_ARTS_TWO ==
    [kind |-> "page",
     regions |-> <<[tag |-> <<"d", "i", "v">>, id |-> <<"s", "i", "d", "e", "b", "a", "r">>, class |-> <<>>, role |-> <<>>]>>,
     anchors |-> <<[text |-> <<"B", "i", "o", "l", "o", "g", "y">>,
                 href |-> <<"b", "i", "o">>,
                 region |-> 1, ul |-> 1, li |-> 1],
                  [text |-> <<"C", "h", "e", "m", "i", "s", "t", "r", "y">>,
                 href |-> <<"c", "h", "e", "m">>,
                 region |-> 1, ul |-> 1, li |-> 2],
                  [text |-> <<"P", "h", "y", "s", "i", "c", "s">>,
                 href |-> <<"p", "h", "y", "s">>,
                 region |-> 1, ul |-> 1, li |-> 3]>>,
     h1 |-> None,
     title |-> <<"S", "c", "h", "o", "o", "l", " ", "o", "f", " ", "A", "r", "t", "s", " ", "|", " ", "F", "i", "s", "h", "e", "r">>,
     lis |-> <<>>,
     headings |-> <<>>,
     text |-> <<"B", "i", "o", "l", "o", "g", "y", " ", "C", "h", "e", "m", "i", "s", "t", "r", "y", " ", "P", "h", "y", "s", "i", "c", "s">>]

\* A program page whose courses link reads 'Chemistry courses', followed by a
\* link 'Courses A-Z' to another page.
PAGE_CHEM ==
    [kind |-> "page",
     regions |-> <<>>,
     anchors |-> <<[text |-> <<"P", "r", "o", "g", "r", "a", "m", " ", "R", "e", "q", "u", "i", "r", "e", "m", "e", "n", "t", "s">>,
                 href |-> <<"r", "e", "q", "s">>,
                 region |-> 0, ul |-> 0, li |-> 0],
                  [text |-> <<"C", "h", "e", "m", "i", "s", "t", "r", "y", " ", "c", "o", "u", "r", "s", "e", "s">>,
                 href |-> <<"c", "o", "u", "r", "s", "e", "s">>,
                 region |-> 0, ul |-> 0, li |-> 0],
                  [text |-> <<"C", "o", "u", "r", "s", "e", "s", " ", "A", "-", "Z">>,
                 href |-> <<"/", "2", "5", "/", "a", "z">>,
                 region |-> 0, ul |-> 0, li |-> 0]>>,
     h1 |-> <<"C", "h", "e", "m", "i", "s", "t", "r", "y">>,
     title |-> None,
     lis |-> <<>>,
     headings |-> <<>>,
     text |-> <<"C", "h", "e", "m", "i", "s", "t", "r", "y", " ", "P", "r", "o", "g", "r", "a", "m", " ", "R", "e", "q", "u", "i", "r", "e", "m", "e", "n", "t", "s", " ", "C", "h", "e", "m", "i", "s", "t", "r", "y", " ", "c", "o", "u", "r", "s", "e", "s", " ", "C", "o", "u", "r", "s", "e", "s", " ", "A", "-", "Z">>]

\* A requirements page with no course token.
PAGE_CHEM_REQS ==
    [kind |-> "page",
     regions |-> <<>>,
     anchors |-> <<>>,
     h1 |-> <<"R", "e", "q", "u", "i", "r", "e", "m", "e", "n", "t", "s">>,
     title |-> None,
     lis |-> <<>>,
     headings |-> <<>>,
     text |-> <<"S", "e", "e", " ", "y", "o", "u", "r", " ", "a", "d", "v", "i", "s", "o", "r", ".">>]

\* A courses page with one heading; the prerequisite text comes from the label's parent.
PAGE_CHEM_COURSES ==
    [kind |-> "page",
     regions |-> <<>>,
     anchors |-> <<>>,
     h1 |-> None,
     title |-> None,
     lis |-> <<<<[string |-> <<"P", "r", "e", "-", "r", "e", "q", "u", "i", "s", "i", "t", "e">>,
                sibling |-> None,
                parent_text |-> <<"P", "r", "e", "-", "r", "e", "q", "u", "i", "s", "i", "t", "e", ":", " ", "B", "I", "O", " ", "1", "0", "1", " ", "o", "r", " ", "A", "B", "C", " ", "9", "9", "9", "\n", "C", "r", "e", "d", "i", "t", "s", ":", " ", "4">>]>>>>,
     headings |-> <<[text |-> <<"C", "H", "E", "M", "-", "1", "0", "4", "L", " ", "G", "e", "n", "e", "r", "a", "l", " ", "C", "h", "e", "m", "i", "s", "t", "r", "y", " ", "(", "(", "l", "a", "b", ")", " ", "4", ")">>, li |-> 1]>>,
     text |-> <<"C", "H", "E", "M", "-", "1", "0", "4", "L", " ", "G", "e", "n", "e", "r", "a", "l", " ", "C", "h", "e", "m", "i", "s", "t", "r", "y", " ", "(", "(", "l", "a", "b", ")", " ", "4", ")", " ", "P", "r", "e", "-", "r", "e", "q", "u", "i", "s", "i", "t", "e", ":", " ", "B", "I", "O", " ", "1", "0", "1", " ", "o", "r", " ", "A", "B", "C", " ", "9", "9", "9", "\n", "C", "r", "e", "d", "i", "t", "s", ":", " ", "4">>]

\* A program page with a 'Program Requirements' link and no 'Courses' link.
PAGE_PHYS ==
    [kind |-> "page",
     regions |-> <<>>,
     anchors |-> <<[text |-> <<"P", "r", "o", "g", "r", "a", "m", " ", "R", "e", "q", "u", "i", "r", "e", "m", "e", "n", "t", "s">>,
                 href |-> <<"r", "e", "q", "s">>,
                 region |-> 0, ul |-> 0, li |-> 0]>>,
     h1 |-> <<"P", "h", "y", "s", "i", "c", "s">>,
     title |-> None,
     lis |-> <<>>,
     headings |-> <<>>,
     text |-> <<"P", "h", "y", "s", "i", "c", "s", " ", "P", "r", "o", "g", "r", "a", "m", " ", "R", "e", "q", "u", "i", "r", "e", "m", "e", "n", "t", "s">>]

\* The requirements page of the program without courses.
PAGE_PHYS_REQS ==
    [kind |-> "page",
     regions |-> <<>>,
     anchors |-> <<>>,
     h1 |-> <<"R", "e", "q", "u", "i", "r", "e", "m", "e", "n", "t", "s">>,
     title |-> None,
     lis |-> <<>>,
     headings |-> <<>>,
     text |-> <<"T", "a", "k", "e", " ", "B", "I", "O", " ", "1", "0", "1", ".">>]

\* The second school's page: one program link.
PAGE_NURSING ==
    [kind |-> "page",
     regions |-> <<[tag |-> <<"d", "i", "v">>, id |-> <<"s", "i", "d", "e", "b", "a", "r">>, class |-> <<>>, role |-> <<>>]>>,
     anchors |-> <<[text |-> <<"N", "u", "r", "s", "i", "n", "g", " ", "B", "S">>,
                 href |-> <<"b", "s">>,
                 region |-> 1, ul |-> 1, li |-> 1]>>,
     h1 |-> <<"N", "u", "r", "s", "i", "n", "g">>,
     title |-> None,
     lis |-> <<>>,
     headings |-> <<>>,
     text |-> <<"N", "u", "r", "s", "i", "n", "g", " ", "N", "u", "r", "s", "i", "n", "g", " ", "B", "S">>]

\* The second school's program page.
PAGE_BS ==
    [kind |-> "page",
     regions |-> <<>>,
     anchors |-> <<[text |-> <<"P", "r", "o", "g", "r", "a", "m", " ", "R", "e", "q", "u", "i", "r", "e", "m", "e", "n", "t", "s">>,
                 href |-> <<"r", "e", "q", "s">>,
                 region |-> 0, ul |-> 0, li |-> 0],
                  [text |-> <<"C", "o", "u", "r", "s", "e", "s">>,
                 href |-> <<"c", "o", "u", "r", "s", "e", "s">>,
                 region |-> 0, ul |-> 0, li |-> 0]>>,
     h1 |-> <<"N", "u", "r", "s", "i", "n", "g", " ", "B", "S">>,
     title |-> None,
     lis |-> <<>>,
     headings |-> <<>>,
     text |-> <<"N", "u", "r", "s", "i", "n", "g", " ", "B", "S", " ", "P", "r", "o", "g", "r", "a", "m", " ", "R", "e", "q", "u", "i", "r", "e", "m", "e", "n", "t", "s", " ", "C", "o", "u", "r", "s", "e", "s">>]

\* The second school's requirements page.
PAGE_BS_REQS ==
    [kind |-> "page",
     regions |-> <<>>,
     anchors |-> <<>>,
     h1 |-> <<"R", "e", "q", "u", "i", "r", "e", "m", "e", "n", "t", "s">>,
     title |-> None,
     lis |-> <<>>,
     headings |-> <<>>,
     text |-> <<"T", "a", "k", "e", " ", "N", "U", "R", " ", "1", "0", "0", ".">>]

\* The second school's courses page: two headings outside any <li>, whose
\* course ids differ in letter case and hyphen only.
PAGE_BS_COURSES ==
    [kind |-> "page",
     regions |-> <<>>,
     anchors |-> <<>>,
     h1 |-> None,
     title |-> None,
     lis |-> <<>>,
     headings |-> <<[text |-> <<"N", "U", "R", "-", "1", "0", "0", " ", "I", "n", "t", "r", "o">>, li |-> 0],
                   [text |-> <<"n", "u", "r", "1", "0", "0", " ", "I", "n", "t", "r", "o", " ", "L", "a", "b">>, li |-> 0]>>,
     text |-> <<"N", "U", "R", "-", "1", "0", "0", " ", "I", "n", "t", "r", "o", " ", "n", "u", "r", "1", "0", "0", " ", "I", "n", "t", "r", "o", " ", "L", "a", "b">>]

\* A root page without an element of id 'sidebar': a <div role="navigation">
\* that links the nursing school, then a <div class="sidebar"> that links the
\* school of arts.
PAGE_ROOT_ROLE ==
    [kind |-> "page",
     regions |-> <<[tag |-> <<"d", "i", "v">>, id |-> <<>>, class |-> <<>>, role |-> <<"n", "a", "v", "i", "g", "a", "t", "i", "o", "n">>],
                   [tag |-> <<"d", "i", "v">>, id |-> <<>>, class |-> <<"s", "i", "d", "e", "b", "a", "r">>, role |-> <<>>]>>,
     anchors |-> <<[text |-> <<"S", "c", "h", "o", "o", "l", " ", "o", "f", " ", "N", "u", "r", "s", "i", "n", "g">>,
                 href |-> <<"/", "2", "5", "/", "u", "n", "d", "e", "r", "g", "r", "a", "d", "u", "a", "t", "e", "/", "n", "u", "r", "s", "i", "n", "g", "/">>,
                 region |-> 1, ul |-> 1, li |-> 1],
                  [text |-> <<"S", "c", "h", "o", "o", "l", " ", "o", "f", " ", "A", "r", "t", "s">>,
                 href |-> <<"/", "2", "5", "/", "u", "n", "d", "e", "r", "g", "r", "a", "d", "u", "a", "t", "e", "/", "a", "r", "t", "s">>,
                 region |-> 2, ul |-> 1, li |-> 1]>>,
     h1 |-> <<"C", "a", "t", "a", "l", "o", "g">>,
     title |-> None,
     lis |-> <<>>,
     headings |-> <<>>,
     text |-> <<"C", "a", "t", "a", "l", "o", "g", " ", "S", "c", "h", "o", "o", "l", " ", "o", "f", " ", "N", "u", "r", "s", "i", "n", "g", " ", "S", "c", "h", "o", "o", "l", " ", "o", "f", " ", "A", "r", "t", "s">>]

\* A school page whose navigation names the program 'Biology' twice, with two
\* different program pages.
PAGE_ARTS_SAME ==
    [kind |-> "page",
     regions |-> <<[tag |-> <<"d", "i", "v">>, id |-> <<"s", "i", "d", "e", "b", "a", "r">>, class |-> <<>>, role |-> <<>>]>>,
     anchors |-> <<[text |-> <<"B", "i", "o", "l", "o", "g", "y">>,
                 href |-> <<"b", "i", "o">>,
                 region |-> 1, ul |-> 1, li |-> 1],
                  [text |-> <<"B", "i", "o", "l", "o", "g", "y">>,
                 href |-> <<"c", "h", "e", "m">>,
                 region |-> 1, ul |-> 1, li |-> 2]>>,
     h1 |-> <<"S", "c", "h", "o", "o", "l", " ", "o", "f", " ", "A", "r", "t", "s">>,
     title |-> None,
     lis |-> <<>>,
     headings |-> <<>>,
     text |-> <<"S", "c", "h", "o", "o", "l", " ", "o", "f", " ", "A", "r", "t", "s", " ", "B", "i", "o", "l", "o", "g", "y", " ", "B", "i", "o", "l", "o", "g", "y">>]

\* A root page whose sidebar links an undergraduate school and a graduate
\* school.
PAGE_ROOT_GRAD ==
    [kind |-> "page",
     regions |-> <<[tag |-> <<"d", "i", "v">>, id |-> <<"s", "i", "d", "e", "b", "a", "r">>, class |-> <<>>, role |-> <<>>]>>,
     anchors |-> <<[text |-> <<"S", "c", "h", "o", "o", "l", " ", "o", "f", " ", "A", "r", "t", "s">>,
                 href |-> <<"/", "2", "5", "/", "u", "n", "d", "e", "r", "g", "r", "a", "d", "u", "a", "t", "e", "/", "a", "r", "t", "s">>,
                 region |-> 1, ul |-> 1, li |-> 1],
                  [text |-> <<"G", "r", "a", "d", "u", "a", "t", "e", " ", "S", "c", "h", "o", "o", "l", " ", "o", "f", " ", "N", "u", "r", "s", "i", "n", "g">>,
                 href |-> <<"/", "2", "5", "/", "g", "r", "a", "d", "u", "a", "t", "e", "/", "n", "u", "r", "s", "i", "n", "g", "/">>,
                 region |-> 1, ul |-> 1, li |-> 2]>>,
     h1 |-> <<"C", "a", "t", "a", "l", "o", "g">>,
     title |-> None,
     lis |-> <<>>,
     headings |-> <<>>,
     text |-> <<"C", "a", "t", "a", "l", "o", "g", " ", "S", "c", "h", "o", "o", "l", " ", "o", "f", " ", "A", "r", "t", "s", " ", "G", "r", "a", "d", "u", "a", "t", "e", " ", "S", "c", "h", "o", "o", "l", " ", "o", "f", " ", "N", "u", "r", "s", "i", "n", "g">>]

\* The one-school site: one school, one program, two courses, one prerequisite.
SITE_ONE ==
    <<[url |-> URL_ROOT, page |-> PAGE_ROOT_ONE],
      [url |-> URL_ARTS, page |-> PAGE_ARTS_ONE],
      [url |-> URL_BIO, page |-> PAGE_BIO],
      [url |-> URL_BIO_REQS, page |-> PAGE_BIO_REQS],
      [url |-> URL_BIO_COURSES, page |-> PAGE_BIO_COURSES]>>

\* The two-school site.
SITE_TWO ==
    <<[url |-> URL_ROOT, page |-> PAGE_ROOT_TWO],
      [url |-> URL_ARTS, page |-> PAGE_ARTS_TWO],
      [url |-> URL_BIO, page |-> PAGE_BIO],
      [url |-> URL_BIO_REQS, page |-> PAGE_BIO_REQS],
      [url |-> URL_BIO_COURSES, page |-> PAGE_BIO_COURSES],
      [url |-> URL_CHEM, page |-> PAGE_CHEM],
      [url |-> URL_CHEM_REQS, page |-> PAGE_CHEM_REQS],
      [url |-> URL_CHEM_COURSES, page |-> PAGE_CHEM_COURSES],
      [url |-> URL_PHYS, page |-> PAGE_PHYS],
      [url |-> URL_PHYS_REQS, page |-> PAGE_PHYS_REQS],
      [url |-> URL_NURSING, page |-> PAGE_NURSING],
      [url |-> URL_BS, page |-> PAGE_BS],
      [url |-> URL_BS_REQS, page |-> PAGE_BS_REQS],
      [url |-> URL_BS_COURSES, page |-> PAGE_BS_COURSES]>>

\* The site whose root page has its navigation by role and by class only.
SITE_ROLE ==
    <<[url |-> URL_ROOT, page |-> PAGE_ROOT_ROLE],
      [url |-> URL_ARTS, page |-> PAGE_ARTS_ONE],
      [url |-> URL_BIO, page |-> PAGE_BIO],
      [url |-> URL_BIO_REQS, page |-> PAGE_BIO_REQS],
      [url |-> URL_BIO_COURSES, page |-> PAGE_BIO_COURSES]>>

\* The site whose school lists one program name twice.
SITE_SAME ==
    <<[url |-> URL_ROOT, page |-> PAGE_ROOT_ONE],
      [url |-> URL_ARTS, page |-> PAGE_ARTS_SAME],
      [url |-> URL_BIO, page |-> PAGE_BIO],
      [url |-> URL_BIO_REQS, page |-> PAGE_BIO_REQS],
      [url |-> URL_BIO_COURSES, page |-> PAGE_BIO_COURSES],
      [url |-> URL_CHEM, page |-> PAGE_CHEM],
      [url |-> URL_CHEM_REQS, page |-> PAGE_CHEM_REQS],
      [url |-> URL_CHEM_COURSES, page |-> PAGE_CHEM_COURSES]>>

\* The site with an undergraduate and a graduate school.
SITE_GRAD ==
    <<[url |-> URL_ROOT, page |-> PAGE_ROOT_GRAD],
      [url |-> URL_ARTS, page |-> PAGE_ARTS_ONE],
      [url |-> URL_BIO, page |-> PAGE_BIO],
      [url |-> URL_BIO_REQS, page |-> PAGE_BIO_REQS],
      [url |-> URL_BIO_COURSES, page |-> PAGE_BIO_COURSES],
      [url |-> URL_GRAD, page |-> PAGE_NURSING],
      [url |-> URL_GRAD_BS, page |-> PAGE_BS],
      [url |-> URL_GRAD_BS_REQS, page |-> PAGE_BS_REQS],
      [url |-> URL_GRAD_BS_COURSES, page |-> PAGE_BS_COURSES]>>

\* The sites a behaviour can crawl.
Sites == <<SITE_ONE, SITE_TWO, SITE_ROLE, SITE_SAME, SITE_GRAD>>

\* A dictionary left by an earlier build: {"BIO-101": "Cells"}
OLD_DICT == <<[id |-> <<"B", "I", "O", "-", "1", "0", "1">>, title |-> <<"C", "e", "l", "l", "s">>]>>


(***************************************************************************)
(* The pipeline state                                                      *)
(***************************************************************************)

VARIABLES
    site,               \* which of Sites the web server holds
    fs0,                \* the working directory before the first run
    fs,                 \* the working directory: file name -> content
    proc,               \* the script that runs or ran last: "none", "build", "summary"
    pc,                 \* where that script is
    argv,               \* sys.argv[1] of that script
    course_dictionary,  \* the script's course_dictionary
    YOUR_URLS,          \* the discovered candidate school URLs
    filtered,           \* the candidates that appear in the sidebar
    school_i,           \* the position of the school loop in filtered
    sidebar_links,      \* the program links of the current school
    nav_i,              \* the position of the program loop in sidebar_links
    prog_req_link,      \* the current program's requirements link
    courses_link,       \* the current program's courses link
    all_courses_data,   \* the raw course extractions collected so far
    cd_i,               \* the position of the aggregation loop in all_courses_data
    schools_dict,       \* the aggregation's schools, in insertion order
    json_output,        \* the aggregate (NoJson until the crawl is over)
    exit_code,          \* the exit status of the script that ran last
    lastCall,           \* the last fetching operation: what it fetched and returned
    nfail,              \* the fetches that failed so far
    runs,               \* the finished runs, oldest first
    reqFound,           \* the programs of this run whose requirements link was found
    arg_text,           \* resolver harness: the text argument
    arg_dict,           \* resolver harness: the dictionary argument
    ret                 \* resolver harness: what the last call returned

crawlVars == <<YOUR_URLS, filtered, school_i, sidebar_links, nav_i, prog_req_link,
               courses_link>>

aggVars == <<all_courses_data, cd_i, schools_dict, json_output>>

harnessVars == <<arg_text, arg_dict, ret>>

vars == <<site, fs0, fs, proc, pc, argv, course_dictionary, crawlVars, aggVars, exit_code,
          lastCall, nfail, runs, reqFound, harnessVars>>

\* The runs one behaviour starts, and the fetches that fail in it.
MaxRuns == 2

MaxFailures == 1

(***************************************************************************)
(* Files                                                                   *)
(***************************************************************************)

CorruptFile == [kind |-> "corrupt"]

PickleFile(d) == [kind |-> "pickle", data |-> d]

JsonFile(j) == [kind |-> "json", data |-> j]

\* os.path.exists(filename)
path_exists(filename) == filename \in DOMAIN fs

\* open(filename, 'w') and dump: the file's new content.
WriteFile(filename, content) ==
    [n \in DOMAIN fs \cup {filename} |-> IF n = filename THEN content ELSE fs[n]]

\* pickle.load succeeds on a file that pickle.dump wrote.
PickleLoads(filename) == fs[filename].kind = "pickle"

\* A faulty variant of the loader below: it never reads the file.
load_nothing(filename) == EmptyDict

\* load_course_dictionary of create_course_dictionary.py: {} when the file
\* is missing or does not load.
ccd_load_course_dictionary(filename) ==
    IF path_exists(filename)
    THEN IF PickleLoads(filename) THEN fs[filename].data ELSE EmptyDict
    ELSE EmptyDict

\* load_course_dictionary of get_catalog_summary_json.py: sys.exit(1) when the
\* file is missing, {} when it does not load.
summary_load_course_dictionary(filename) ==
    IF path_exists(filename)
    THEN [exits |-> FALSE,
          dict |-> IF PickleLoads(filename) THEN fs[filename].data ELSE EmptyDict]
    ELSE [exits |-> TRUE, dict |-> EmptyDict]

\* The working directories a behaviour can start in.
InitialFileSystems ==
    {<<>>,
     BUILD_COURSE_DICT_FILE :> CorruptFile,
     BUILD_COURSE_DICT_FILE :> PickleFile(EmptyDict),
     BUILD_COURSE_DICT_FILE :> PickleFile(OLD_DICT),
     SUMMARY_COURSE_DICT_FILE(URL_ROOT) :> CorruptFile,
     SUMMARY_COURSE_DICT_FILE(URL_ROOT) :> PickleFile(OLD_DICT)}

(***************************************************************************)
(* Page Fetcher                                                            *)
(***************************************************************************)

\* What requests.get and raise_for_status can raise (all are
\* requests.RequestException).
FetchErrors == {"Timeout", "ConnectionError", "HTTPError"}

RequestException == {"Timeout", "ConnectionError", "HTTPError"}

\* Whether the pages of a site hold url, and the page they hold there.
HasUrl(pages, url) == \E k \in 1..Len(pages) : pages[k].url = url

PageAt(pages, url) == pages[CHOOSE k \in 1..Len(pages) : pages[k].url = url].page

SiteHas(url) == HasUrl(Sites[site], url)

SitePage(url) == PageAt(Sites[site], url)

\* What a fetch of url can come to: a page the server does not hold is a 404.
Outcomes(url) ==
    IF SiteHas(url)
    THEN {"ok"} \cup (IF nfail < MaxFailures THEN FetchErrors ELSE {})
    ELSE {"HTTPError"}

Failed(url, outcome) == IF SiteHas(url) /\ outcome # "ok" THEN 1 ELSE 0

\* A faulty variant of fetch_html: it catches requests.HTTPError only.
fetch_html_status_only(url, outcome) ==
    IF outcome = "ok" THEN SitePage(url)
    ELSE IF outcome = "HTTPError" THEN NoneHtml
    ELSE Raised

\* fetch_html: the page's text, None on a RequestException; any other
\* exception leaves the function.
fetch_html(url, outcome) ==
    IF outcome = "ok" THEN SitePage(url)
    ELSE IF outcome \in RequestException THEN NoneHtml
    ELSE Raised

\* time.sleep(0.5) stands after raise_for_status() inside the try block: it
\* is reached only when neither requests.get nor raise_for_status raised.
Sleeps(outcome) == outcome = "ok"

Call(op, url, outcome, returned) ==
    [op |-> op, url |-> url, outcome |-> outcome, returned |-> returned,
     slept |-> Sleeps(outcome)]

NoCall == [op |-> "none"]

(***************************************************************************)
(* Script start and exit                                                   *)
(***************************************************************************)

Urls == {URL_ROOT}

Run(script, url, code, reason) ==
    [script |-> script, url |-> url, code |-> code, reason |-> reason]

\* The script ends with the given exit status.
Exit(script, url, code, reason) ==
    /\ pc' = "exited"
    /\ exit_code' = code
    /\ runs' = Append(runs, Run(script, url, code, reason))

\* An exception that nothing catches ends the script with a traceback.
Crash(op, url, outcome) ==
    /\ lastCall' = Call(op, url, outcome, Raised)
    /\ pc' = "exited"
    /\ exit_code' = 1
    /\ runs' = Append(runs, Run(proc, argv, 1, "exception"))

\* json_output before the script made it.
NoJson == [kind |-> "none"]

CanStart == pc \in {"idle", "exited"} /\ Len(runs) < MaxRuns

ResetLocals ==
    /\ YOUR_URLS' = <<>>
    /\ filtered' = <<>>
    /\ school_i' = 0
    /\ sidebar_links' = <<>>
    /\ nav_i' = 0
    /\ prog_req_link' = None
    /\ courses_link' = None
    /\ all_courses_data' = <<>>
    /\ cd_i' = 0
    /\ schools_dict' = <<>>
    /\ json_output' = NoJson
    /\ lastCall' = NoCall
    /\ reqFound' = {}

\* create_course_dictionary.py up to the test of the loaded dictionary: a
\* non-empty dictionary ends the script, an empty one starts the crawl.
StartBuild(url) ==
    /\ CanStart
    /\ proc' = "build"
    /\ argv' = url
    /\ ResetLocals
    /\ course_dictionary' = ccd_load_course_dictionary(BUILD_COURSE_DICT_FILE)
    /\ IF course_dictionary' # EmptyDict
       THEN Exit("build", url, 0, "loaded")
       ELSE pc' = "discover" /\ UNCHANGED <<exit_code, runs>>
    /\ UNCHANGED <<site, fs0, fs, nfail, harnessVars>>

\* get_catalog_summary_json.py up to load_course_dictionary().
StartSummary(url) ==
    /\ CanStart
    /\ proc' = "summary"
    /\ argv' = url
    /\ ResetLocals
    /\ LET loaded == summary_load_course_dictionary(SUMMARY_COURSE_DICT_FILE(url))
       IN IF loaded.exits
          THEN /\ course_dictionary' = EmptyDict
               /\ Exit("summary", url, 1, "dictionary not found")
          ELSE /\ course_dictionary' = loaded.dict
               /\ pc' = "discover"
               /\ UNCHANGED <<exit_code, runs>>
    /\ UNCHANGED <<site, fs0, fs, nfail, harnessVars>>

\* get_catalog_summary_json.py started without a URL argument: the module
\* level statement CATALOG_PAGE_WITH_SIDEBAR = sys.argv[1] raises IndexError
\* before the __main__ block chooses its default URL.
StartSummaryWithoutUrl ==
    /\ CanStart
    /\ proc' = "summary"
    /\ argv' = None
    /\ ResetLocals
    /\ course_dictionary' = EmptyDict
    /\ Exit("summary", None, 1, "IndexError")
    /\ UNCHANGED <<site, fs0, fs, nfail, harnessVars>>

(***************************************************************************)
(* The crawl, common to both scripts                                       *)
(***************************************************************************)

\* A fetching operation returned: the fetch is counted and remembered.
Returned(op, url, outcome, returned) ==
    /\ nfail' = nfail + Failed(url, outcome)
    /\ lastCall' = Call(op, url, outcome, returned)
    /\ UNCHANGED <<exit_code, runs>>

\* An exception left the fetching operation.
Raises(op, url, outcome) ==
    /\ nfail' = nfail + Failed(url, outcome)
    /\ Crash(op, url, outcome)

DiscoverFound(outcome, found) ==
    /\ YOUR_URLS' = found
    /\ pc' = "filter"
    /\ Returned("discover", argv, outcome, found)

DiscoverPage(outcome, html) ==
    IF html = Raised
    THEN Raises("discover", argv, outcome) /\ UNCHANGED YOUR_URLS
    ELSE DiscoverFound(outcome,
                       IF proc = "build"
                       THEN ccd_discover_candidate_school_urls(html, argv, FALSE)
                       ELSE util_discover_candidate_school_urls(html, argv))

\* discover_candidate_school_urls(CATALOG_PAGE_WITH_SIDEBAR), each script
\* with its own module's function.
Discover ==
    /\ pc = "discover"
    /\ \E outcome \in Outcomes(argv) : DiscoverPage(outcome, fetch_html(argv, outcome))
    /\ UNCHANGED <<site, fs0, fs, proc, argv, course_dictionary, filtered, school_i,
                   sidebar_links, nav_i, prog_req_link, courses_link, aggVars,
                   reqFound, harnessVars>>

FilterLinks(outcome, links) ==
    /\ filtered' = filter_by_links(YOUR_URLS, links)
    /\ school_i' = 1
    /\ pc' = "school"
    /\ Returned("filter", argv, outcome, links)

FilterPage(outcome, html) ==
    IF html = Raised
    THEN Raises("filter", argv, outcome) /\ UNCHANGED <<filtered, school_i>>
    ELSE FilterLinks(outcome,
                     IF proc = "build" THEN ccd_get_sidebar_links(html, argv)
                     ELSE util_get_sidebar_links(html, argv))

\* filter_urls_by_sidebar(CATALOG_PAGE_WITH_SIDEBAR, YOUR_URLS)
Filter ==
    /\ pc = "filter"
    /\ \E outcome \in Outcomes(argv) : FilterPage(outcome, fetch_html(argv, outcome))
    /\ UNCHANGED <<site, fs0, fs, proc, argv, course_dictionary, YOUR_URLS, sidebar_links,
                   nav_i, prog_req_link, courses_link, aggVars, reqFound, harnessVars>>

SchoolNavLinks(school_url, outcome, links) ==
    /\ sidebar_links' = links
    /\ IF links = <<>>
       THEN school_i' = school_i + 1 /\ pc' = "school" /\ UNCHANGED nav_i
       ELSE nav_i' = 1 /\ pc' = "find_req" /\ UNCHANGED school_i
    /\ Returned("school", school_url, outcome, links)

SchoolPage(school_url, outcome, html) ==
    IF html = Raised
    THEN Raises("school", school_url, outcome) /\ UNCHANGED <<sidebar_links, school_i, nav_i>>
    ELSE SchoolNavLinks(school_url, outcome, get_sidebar_ul_links(html, school_url))

SchoolFetch(school_url) ==
    \E outcome \in Outcomes(school_url) :
        SchoolPage(school_url, outcome, fetch_html(school_url, outcome))

\* The head of the school loop: get_sidebar_ul_links(school_url); a school
\* without program links is skipped.
SchoolLinks ==
    /\ pc = "school"
    /\ school_i <= Len(filtered)
    /\ SchoolFetch(filtered[school_i])
    /\ UNCHANGED <<site, fs0, fs, proc, argv, course_dictionary, YOUR_URLS, filtered,
                   prog_req_link, courses_link, aggVars, reqFound, harnessVars>>

\* The program loop moves to its next entry, or the school loop to its next.
NextNav ==
    IF nav_i < Len(sidebar_links)
    THEN nav_i' = nav_i + 1 /\ pc' = "find_req" /\ UNCHANGED school_i
    ELSE nav_i' = 0 /\ school_i' = school_i + 1 /\ pc' = "school"

\* if not prog_req_link: continue
RequirementsLink(nav_link, outcome, link) ==
    /\ prog_req_link' = link
    /\ IF link # None /\ link # EmptyStr
       THEN /\ pc' = "find_courses"
            /\ reqFound' = reqFound \cup {<<filtered[school_i], nav_link.text>>}
            /\ UNCHANGED <<school_i, nav_i>>
       ELSE NextNav /\ UNCHANGED reqFound
    /\ Returned("find_req", nav_link.url, outcome, link)

RequirementsPage(nav_link, outcome, html) ==
    IF html = Raised
    THEN /\ Raises("find_req", nav_link.url, outcome)
         /\ UNCHANGED <<prog_req_link, school_i, nav_i, reqFound>>
    ELSE RequirementsLink(nav_link, outcome,
                          find_link(html, nav_link.url, s_Program_Requirements))

RequirementsFetch(nav_link) ==
    \E outcome \in Outcomes(nav_link.url) :
        RequirementsPage(nav_link, outcome, fetch_html(nav_link.url, outcome))

\* find_link(nav_link['url'], "Program Requirements")
FindProgramRequirements ==
    /\ pc = "find_req"
    /\ RequirementsFetch(sidebar_links[nav_i])
    /\ UNCHANGED <<site, fs0, fs, proc, argv, course_dictionary, YOUR_URLS, filtered,
                   sidebar_links, courses_link, aggVars, harnessVars>>

\* if not courses_link: continue
CoursesLink(nav_link, outcome, link) ==
    /\ courses_link' = link
    /\ IF link # None /\ link # EmptyStr
       THEN pc' = "extract" /\ UNCHANGED <<school_i, nav_i>>
       ELSE NextNav
    /\ Returned("find_courses", nav_link.url, outcome, link)

CoursesPage(nav_link, outcome, html) ==
    IF html = Raised
    THEN /\ Raises("find_courses", nav_link.url, outcome)
         /\ UNCHANGED <<courses_link, school_i, nav_i>>
    ELSE CoursesLink(nav_link, outcome, find_link(html, nav_link.url, s_Courses))

CoursesFetch(nav_link) ==
    \E outcome \in Outcomes(nav_link.url) :
        CoursesPage(nav_link, outcome, fetch_html(nav_link.url, outcome))

\* find_link(nav_link['url'], "Courses")
FindCourses ==
    /\ pc = "find_courses"
    /\ CoursesFetch(sidebar_links[nav_i])
    /\ UNCHANGED <<site, fs0, fs, proc, argv, course_dictionary, YOUR_URLS, filtered,
                   sidebar_links, prog_req_link, aggVars, reqFound, harnessVars>>

\* for course in course_data: course_dictionary[course["course_id"]] = course["course_title"]
RECURSIVE AddToDictionary(_, _, _)
AddToDictionary(d, course_data, k) ==
    IF k > Len(course_data) THEN d
    ELSE AddToDictionary(DictSet(d, course_data[k].course_id, course_data[k].course_title),
                         course_data, k + 1)

\* for course in course_data: all_courses_data.append({..., **course})
CourseRows(school_url, nav_link, req_link, crs_link, course_data) ==
    [k \in 1..Len(course_data) |->
        [school_url |-> school_url,
         program_name |-> nav_link.text,
         prog_req_link |-> req_link,
         courses_link |-> crs_link,
         course_id |-> course_data[k].course_id,
         course_title |-> course_data[k].course_title,
         prerequisites |-> course_data[k].prerequisites]]

\* The loop over the extracted courses: the build fills the dictionary, the
\* summary collects the extractions.  The loop is never reached when the
\* extraction does not return.
ExtractedCourses(outcome, course_data) ==
    /\ IF Hung(course_data)
       THEN /\ pc' = "hung"
            /\ UNCHANGED <<course_dictionary, all_courses_data, school_i, nav_i>>
       ELSE /\ IF proc = "build"
               THEN /\ course_dictionary' =
                           AddToDictionary(course_dictionary, course_data, 1)
                    /\ UNCHANGED all_courses_data
               ELSE /\ all_courses_data' = all_courses_data \o
                           CourseRows(filtered[school_i], sidebar_links[nav_i],
                                      prog_req_link, courses_link, course_data)
                    /\ UNCHANGED course_dictionary
            /\ NextNav
    /\ Returned("extract", courses_link, outcome, course_data)

ExtractPage(outcome, html) ==
    IF html = Raised
    THEN /\ Raises("extract", courses_link, outcome)
         /\ UNCHANGED <<course_dictionary, all_courses_data, school_i, nav_i>>
    ELSE ExtractedCourses(outcome, extract_course_titles(html))

\* extract_course_titles(courses_link) and the loop over its result.
ExtractCourses ==
    /\ pc = "extract"
    /\ \E outcome \in Outcomes(courses_link) :
           ExtractPage(outcome, fetch_html(courses_link, outcome))
    /\ UNCHANGED <<site, fs0, fs, proc, argv, YOUR_URLS, filtered, sidebar_links,
                   prog_req_link, courses_link, cd_i, schools_dict, json_output,
                   reqFound, harnessVars>>

(***************************************************************************)
(* The end of the build                                                    *)
(***************************************************************************)

\* save_course_dictionary(course_dictionary): the file holds the dictionary,
\* unless the write fails (the error is printed and swallowed).
SaveDictionary ==
    /\ proc = "build"
    /\ pc = "school"
    /\ school_i > Len(filtered)
    /\ \E written \in BOOLEAN :
        fs' = IF written
              THEN WriteFile(BUILD_COURSE_DICT_FILE, PickleFile(course_dictionary))
              ELSE fs
    /\ Exit(proc, argv, 0, "built")
    /\ UNCHANGED <<site, fs0, proc, argv, course_dictionary, crawlVars, aggVars, lastCall,
                   nfail, reqFound, harnessVars>>

(***************************************************************************)
(* Catalog Aggregator                                                      *)
(***************************************************************************)

\* The end of the crawl of the summary: json_output with no schools yet.
BeginAggregation ==
    /\ proc = "summary"
    /\ pc = "school"
    /\ school_i > Len(filtered)
    /\ json_output' = [catalog_url |-> argv,
                       total_courses |-> Len(all_courses_data),
                       schools |-> <<>>]
    /\ cd_i' = 1
    /\ pc' = "aggregate"
    /\ UNCHANGED <<site, fs0, fs, proc, argv, course_dictionary, crawlVars, all_courses_data,
                   schools_dict, exit_code, lastCall, nfail, runs, reqFound, harnessVars>>

SchoolIndex(sd, school_url) ==
    IF \E k \in 1..Len(sd) : sd[k].school_url = school_url
    THEN CHOOSE k \in 1..Len(sd) : sd[k].school_url = school_url
    ELSE 0

ProgramIndex(programs, program_name) ==
    IF \E k \in 1..Len(programs) : programs[k].program_name = program_name
    THEN CHOOSE k \in 1..Len(programs) : programs[k].program_name = program_name
    ELSE 0

\* [{"course_id": cid, "course_title": course_dictionary.get(cid, "Unknown")} for cid in ids]
CourseRefs(ids, course_dict) ==
    [k \in 1..Len(ids) |->
        [course_id |-> ids[k], course_title |-> DictGet(course_dict, ids[k], s_Unknown)]]

NamedSchool(school_url, outcome, school_name) ==
    /\ schools_dict' = Append(schools_dict,
                              [school_name |-> school_name,
                               school_url |-> school_url,
                               programs |-> <<>>])
    /\ UNCHANGED pc
    /\ Returned("school_name", school_url, outcome, school_name)

SchoolNamePage(school_url, outcome, html) ==
    IF html = Raised
    THEN Raises("school_name", school_url, outcome) /\ UNCHANGED schools_dict
    ELSE NamedSchool(school_url, outcome, extract_school_name(html))

NewSchool(school_url) ==
    /\ SchoolIndex(schools_dict, school_url) = 0
    /\ \E outcome \in Outcomes(school_url) :
           SchoolNamePage(school_url, outcome, fetch_html(school_url, outcome))

\* if school_url not in schools_dict: the school's record, named by
\* extract_school_name(school_url).
AggregateSchool ==
    /\ pc = "aggregate"
    /\ cd_i <= Len(all_courses_data)
    /\ NewSchool(all_courses_data[cd_i].school_url)
    /\ UNCHANGED <<site, fs0, fs, proc, argv, course_dictionary, crawlVars, all_courses_data,
                   cd_i, json_output, reqFound, harnessVars>>

\* The program record made at the first sighting of a program name.
NewProgram(course_data, requirement_courses) ==
    [program_name |-> course_data.program_name,
     program_requirements_url |->
        IF course_data.prog_req_link # None /\ course_data.prog_req_link # EmptyStr
        THEN course_data.prog_req_link ELSE s_Not_available,
     courses_url |-> course_data.courses_link,
     requirement_courses |-> requirement_courses,
     program_courses |-> <<>>]

\* A faulty variant of AddProgram: it stores the new record twice.
AddProgramTwice(sd, s, program) ==
    [sd EXCEPT ![s].programs = Append(Append(@, program), program)]

AddProgram(sd, s, program) ==
    [sd EXCEPT ![s].programs = Append(@, program)]

RequirementIds(course_data, s, link, outcome, req_course_ids) ==
    /\ schools_dict' = AddProgram(schools_dict, s,
                           NewProgram(course_data,
                                      CourseRefs(req_course_ids, course_dictionary)))
    /\ UNCHANGED pc
    /\ Returned("requirements", link, outcome, req_course_ids)

RequirementIdsPage(course_data, s, link, outcome, html) ==
    IF html = Raised
    THEN Raises("requirements", link, outcome) /\ UNCHANGED schools_dict
    ELSE RequirementIds(course_data, s, link, outcome,
             extract_course_ids_from_program_requirements(html, course_dictionary))

\* req_course_ids: extracted when there is a requirements link, [] otherwise.
FirstSighting(course_data, s, link) ==
    /\ s # 0
    /\ ProgramIndex(schools_dict[s].programs, course_data.program_name) = 0
    /\ IF link # None /\ link # EmptyStr /\ link # s_Not_found
       THEN \E outcome \in Outcomes(link) :
              RequirementIdsPage(course_data, s, link, outcome, fetch_html(link, outcome))
       ELSE /\ schools_dict' = AddProgram(schools_dict, s, NewProgram(course_data, <<>>))
            /\ UNCHANGED <<pc, exit_code, runs, lastCall, nfail>>

ProgramOf(course_data) ==
    FirstSighting(course_data, SchoolIndex(schools_dict, course_data.school_url),
                  course_data.prog_req_link)

\* if program_name not in schools_dict[school_url]["programs"]: the program's
\* record, with the requirement courses of its requirements page.
AggregateProgram ==
    /\ pc = "aggregate"
    /\ cd_i <= Len(all_courses_data)
    /\ ProgramOf(all_courses_data[cd_i])
    /\ UNCHANGED <<site, fs0, fs, proc, argv, course_dictionary, crawlVars, all_courses_data,
                   cd_i, json_output, reqFound, harnessVars>>

\* A faulty variant of CourseEntry: it resolves no prerequisite.
CourseEntryUnresolved(course_data, course_dict) ==
    [course_id |-> course_data.course_id,
     course_title |-> course_data.course_title,
     prerequisites |-> <<>>]

\* The course entry of one raw extraction, with its resolved prerequisites.
CourseEntry(course_data, course_dict) ==
    [course_id |-> course_data.course_id,
     course_title |-> course_data.course_title,
     prerequisites |->
        CourseRefs(parse_prerequisite_courses(course_data.prerequisites, course_dict),
                   course_dict)]

\* A faulty variant of AddCourse: it assigns where the code appends.
ReplaceCourses(sd, s, p, entry) ==
    [sd EXCEPT ![s].programs[p].program_courses = <<entry>>]

AddCourse(sd, s, p, entry) ==
    [sd EXCEPT ![s].programs[p].program_courses = Append(@, entry)]

AppendCourse(course_data, s, p) ==
    /\ s # 0
    /\ p # 0
    /\ schools_dict' = AddCourse(schools_dict, s, p,
                                 CourseEntry(course_data, course_dictionary))

CourseInSchool(course_data, s) ==
    AppendCourse(course_data, s,
                 IF s = 0 THEN 0
                 ELSE ProgramIndex(schools_dict[s].programs, course_data.program_name))

CourseOf(course_data) ==
    CourseInSchool(course_data, SchoolIndex(schools_dict, course_data.school_url))

\* The rest of the loop body: the course entry is appended to its program.
AggregateCourse ==
    /\ pc = "aggregate"
    /\ cd_i <= Len(all_courses_data)
    /\ CourseOf(all_courses_data[cd_i])
    /\ cd_i' = cd_i + 1
    /\ UNCHANGED <<site, fs0, fs, proc, pc, argv, course_dictionary, crawlVars,
                   all_courses_data, json_output, exit_code, lastCall, nfail, runs,
                   reqFound, harnessVars>>

\* The schools of schools_dict as the list json_output["schools"].
SchoolEntries(sd) ==
    [k \in 1..Len(sd) |->
        [school_name |-> sd[k].school_name,
         school_url |-> sd[k].school_url,
         programs |-> sd[k].programs]]

\* After the loop: the schools go into json_output, and save_to_json writes
\* it, unless the write fails (the error is printed and swallowed).
WriteJson ==
    /\ pc = "aggregate"
    /\ cd_i > Len(all_courses_data)
    /\ json_output' = [json_output EXCEPT !.schools = SchoolEntries(schools_dict)]
    /\ \E written \in BOOLEAN :
        fs' = IF written
              THEN WriteFile(get_json_filename(argv), JsonFile(json_output'))
              ELSE fs
    /\ Exit(proc, argv, 0, "written")
    /\ UNCHANGED <<site, fs0, proc, argv, course_dictionary, crawlVars, all_courses_data,
                   cd_i, schools_dict, lastCall, nfail, reqFound, harnessVars>>

(***************************************************************************)
(* The pipeline                                                            *)
(***************************************************************************)

\* What the resolver harness holds before a call returned.
NoRet == [op |-> "none", value |-> <<>>]

HarnessIdle == arg_text = <<>> /\ arg_dict = <<>> /\ ret = NoRet

PipelineIdle ==
    /\ proc = "none"
    /\ pc = "idle"
    /\ argv = None
    /\ course_dictionary = EmptyDict
    /\ YOUR_URLS = <<>>
    /\ filtered = <<>>
    /\ school_i = 0
    /\ sidebar_links = <<>>
    /\ nav_i = 0
    /\ prog_req_link = None
    /\ courses_link = None
    /\ all_courses_data = <<>>
    /\ cd_i = 0
    /\ schools_dict = <<>>
    /\ json_output = NoJson
    /\ exit_code = 0
    /\ lastCall = NoCall
    /\ nfail = 0
    /\ runs = <<>>
    /\ reqFound = {}

Init ==
    /\ site \in 1..Len(Sites)
    /\ fs0 \in InitialFileSystems
    /\ fs = fs0
    /\ PipelineIdle
    /\ HarnessIdle

Next ==
    \/ \E url \in Urls : StartBuild(url)
    \/ \E url \in Urls : StartSummary(url)
    \/ StartSummaryWithoutUrl
    \/ Discover
    \/ Filter
    \/ SchoolLinks
    \/ FindProgramRequirements
    \/ FindCourses
    \/ ExtractCourses
    \/ SaveDictionary
    \/ BeginAggregation
    \/ AggregateSchool
    \/ AggregateProgram
    \/ AggregateCourse
    \/ WriteJson

Spec == Init /\ [][Next]_vars

(***************************************************************************)
(* The resolver on its own: parse_prerequisite_courses and the token loop   *)
(* of extract_course_ids_from_program_requirements, called on texts and     *)
(* dictionaries drawn from bounded sets.                                    *)
(***************************************************************************)

\* The fragments a text is made of and the keys a dictionary is made of, and
\* how many of each.
MaxWords == 2

MaxKeys == 2

Fragments ==
    {<<"A", "B", "C", "1", "2", "3">>,
     <<"a", "b", "c", "-", "1", "2", "3">>,
     <<"A", "B", "C", "\t", "1", "2", "3">>,
     <<"A", "B", "C", "D", "-", "1", "2", "3", "L">>,
     <<"A", "B", "C", "D", "E", "1", "2", "3">>}

DictItems ==
    {[id |-> <<"A", "B", "C", "1", "2", "3">>, title |-> <<"A", "l", "p", "h", "a">>],
     [id |-> <<"A", "B", "C", "-", "1", "2", "3">>, title |-> <<"B", "e", "t", "a">>],
     [id |-> <<"a", "b", "c", " ", "1", "2", "3">>, title |-> <<"G", "a", "m", "m", "a">>],
     [id |-> <<"A", "B", "C", "D", "-", "1", "2", "3", "L">>, title |-> <<"D", "e", "l", "t", "a", " ", "L", "a", "b">>]}

\* "Prerequisite: CHEM 104L or permission"
TEXT_CHEM == <<"P", "r", "e", "r", "e", "q", "u", "i", "s", "i", "t", "e", ":", " ", "C", "H", "E", "M", " ", "1", "0", "4", "L", " ", "o", "r", " ", "p", "e", "r", "m", "i", "s", "s", "i", "o", "n">>

DICT_CHEM == <<[id |-> <<"C", "H", "E", "M", "-", "1", "0", "4", "L">>, title |-> <<"G", "e", "n", "e", "r", "a", "l", " ", "C", "h", "e", "m", "i", "s", "t", "r", "y">>]>>

\* "ABC123 abc-123"
TEXT_TWICE == <<"A", "B", "C", "1", "2", "3", " ", "a", "b", "c", "-", "1", "2", "3">>

\* The texts: None, and up to MaxWords fragments joined by single spaces.
Texts ==
    {None, TEXT_CHEM}
    \cup {str_join(ws, <<" ">>) : ws \in UNION {[1..n -> Fragments] : n \in 0..MaxWords}}

\* The dictionaries: the one of the CHEM-104L example, and up to MaxKeys items
\* with distinct keys, in any order.
Dicts ==
    {DICT_CHEM} \cup
    {d \in UNION {[1..n -> DictItems] : n \in 0..MaxKeys} :
        \A i, j \in 1..Len(d) : i # j => d[i].id # d[j].id}

InitResolver ==
    /\ site = 1
    /\ fs0 = <<>>
    /\ fs = <<>>
    /\ PipelineIdle
    /\ arg_text \in Texts
    /\ arg_dict \in Dicts
    /\ ret = NoRet

PipelineUnchanged ==
    UNCHANGED <<site, fs0, fs, proc, pc, argv, course_dictionary, crawlVars, aggVars,
                exit_code, lastCall, nfail, runs, reqFound>>

\* parse_prerequisite_courses(arg_text, arg_dict)
CallParse ==
    /\ ret' = [op |-> "parse", value |-> parse_prerequisite_courses(arg_text, arg_dict)]
    /\ UNCHANGED <<arg_text, arg_dict>>
    /\ PipelineUnchanged

\* The resolver loop of extract_course_ids_from_program_requirements on a
\* page whose visible text is arg_text.
CallExtract ==
    /\ arg_text # None
    /\ ret' = [op |-> "extract", value |-> extract_ids_from_text(arg_text, arg_dict)]
    /\ UNCHANGED <<arg_text, arg_dict>>
    /\ PipelineUnchanged

NextResolver == CallParse \/ CallExtract

SpecResolver == InitResolver /\ [][NextResolver]_vars

(***************************************************************************)
(* The text functions on their own: normalize_url and remove_parenthetical, *)
(* called on strings drawn from bounded sets.                               *)
(***************************************************************************)

\* The segments a URL's path is made of, and the pieces of a heading, at most.
MaxSegments == 2

MaxPieces == 3

\* The parts of the URLs: scheme, authority, path segments (one ends in a
\* blank), and what follows the path.
UrlSchemes ==
    {<<>>,
     <<"H", "T", "T", "P", ":">>,
     <<"h", "t", "t", "p", ":">>}

UrlAuthorities ==
    {<<>>,
     <<"/", "/", "E", "x", "a", "m", "p", "l", "e", ".", "e", "d", "u">>,
     <<"/", "/", "c", ".", "e">>}

UrlSegments ==
    {<<"A">>,
     <<"B">>,
     <<"a", ".", "b">>,
     <<"c", ".", "d", " ">>}

UrlTails ==
    {<<>>,
     <<"/">>,
     <<"?", "x", "=", "1", "#", "f", "r", "a", "g">>}

\* "/" before each segment.
RECURSIVE PathOf(_)
PathOf(segs) == IF segs = <<>> THEN <<>> ELSE <<"/">> \o segs[1] \o PathOf(Tail(segs))

UrlPaths == {PathOf(segs) : segs \in UNION {[1..n -> UrlSegments] : n \in 0..MaxSegments}}

\* "HTTP:////Example.edu/A": an absolute URL with an empty host.
URL_EMPTY_HOST == <<"H", "T", "T", "P", ":", "/", "/", "/", "/", "E", "x", "a", "m", "p", "l", "e", ".", "e", "d", "u", "/", "A">>

\* The URL strings: every combination of the parts, and the one with an empty
\* host.
UrlTexts ==
    {URL_EMPTY_HOST}
    \cup {s \o a \o p \o t :
            s \in UrlSchemes, a \in UrlAuthorities, p \in UrlPaths, t \in UrlTails}

\* "HTTP://Example.edu/A/B?x=1#frag"
URL_EXAMPLE == <<"H", "T", "T", "P", ":", "/", "/", "E", "x", "a", "m", "p", "l", "e", ".", "e", "d", "u", "/", "A", "/", "B", "?", "x", "=", "1", "#", "f", "r", "a", "g">>

\* "http://example.edu/a/b/"
URL_EXAMPLE_EXPECTED == <<"h", "t", "t", "p", ":", "/", "/", "e", "x", "a", "m", "p", "l", "e", ".", "e", "d", "u", "/", "a", "/", "b", "/">>

\* The pieces of the heading texts: a word, a parenthetical, a nested one, a
\* lone bracket of each kind, a word with a tab in it, nothing.
TitlePieces ==
    {<<"A", "b">>,
     <<"(", "t", "o", ")">>,
     <<"(", "(", "n", ")", ")">>,
     <<"(">>,
     <<")">>,
     <<"c", "\t", "d">>,
     <<>>}

\* "Intro (to) Systems ((nested))"
TEXT_INTRO == <<"I", "n", "t", "r", "o", " ", "(", "t", "o", ")", " ", "S", "y", "s", "t", "e", "m", "s", " ", "(", "(", "n", "e", "s", "t", "e", "d", ")", ")">>

\* "Intro Systems"
TEXT_INTRO_EXPECTED == <<"I", "n", "t", "r", "o", " ", "S", "y", "s", "t", "e", "m", "s">>

\* "Intro (honors"
TEXT_HONORS == <<"I", "n", "t", "r", "o", " ", "(", "h", "o", "n", "o", "r", "s">>

\* The heading texts: the examples, and up to MaxPieces pieces joined by
\* single spaces.
TitleTexts ==
    {TEXT_INTRO, TEXT_HONORS}
    \cup {str_join(ps, <<" ">>) : ps \in UNION {[1..n -> TitlePieces] : n \in 0..MaxPieces}}

InitText ==
    /\ site = 1
    /\ fs0 = <<>>
    /\ fs = <<>>
    /\ PipelineIdle
    /\ arg_text \in UrlTexts \cup TitleTexts
    /\ arg_dict = <<>>
    /\ ret = NoRet

\* normalize_url(arg_text)
CallNormalize ==
    /\ ret' = [op |-> "normalize", value |-> normalize_url(arg_text)]
    /\ UNCHANGED <<arg_text, arg_dict>>
    /\ PipelineUnchanged

\* remove_parenthetical(arg_text); the value is Hang when the call does not
\* return.
CallRemoveParenthetical ==
    /\ ret' = [op |-> "remove_parenthetical", value |-> remove_parenthetical(arg_text)]
    /\ UNCHANGED <<arg_text, arg_dict>>
    /\ PipelineUnchanged

NextText == CallNormalize \/ CallRemoveParenthetical

SpecText == InitText /\ [][NextText]_vars

(***************************************************************************)
(* The workflow of flow.py: seven commands run one after the other.  Each   *)
(* run is recorded in runs with the code run_command returned for it.       *)
(***************************************************************************)

\* The return codes a finished command can have (negative: ended by a signal).
ReturnCodes == {0, 1, 2, -9}

\* What subprocess.run can come to: the command ends with a return code, the
\* executable is not found, or another exception is raised.
CommandOutcomes ==
    [kind : {"returned"}, returncode : ReturnCodes]
    \cup {[kind |-> "FileNotFoundError", returncode |-> 0],
          [kind |-> "Exception", returncode |-> 0]}

\* run_command: the return code of the command; -1 when the command itself
\* was not found, 1 on any other exception.  It never raises.
run_command(outcome) ==
    IF outcome.kind = "FileNotFoundError" THEN -1
    ELSE IF outcome.kind = "Exception" THEN 1
    ELSE outcome.returncode

\* The commands of the steps 1 to 7, in the order main runs them.
FlowCommands ==
    <<"create_course_dictionary.py", "get_catalog_summary_json.py",
      "print_catalog_summary.py", "create_catalog_summary_pdf.py",
      "create_summary_graph.py", "dot", "get_dependencies_pdf.py">>

\* Where main is before step k.
StepPc(k) == <<"step1", "step2", "step3", "step4", "step5", "step6", "step7">>[k]

\* Faulty variants of the two tests after a step: an error test that lets
\* negative codes pass, and a warning that ends the workflow.
ExitsOnPositive(returncode) == returncode > 0

ExitsOnWarning(returncode) == returncode # 0

\* if returncode != 0: print the error; sys.exit(1)
ExitsOnError(returncode) == returncode # 0

\* if returncode != 0: print a warning (no sys.exit)
WarnsOnError(returncode) == FALSE

\* main after the command of step k returned: it exits with status 1, or goes
\* on to the next step; after step 7 it prints the completion message.
AfterStep(k, returncode, exits) ==
    /\ runs' = Append(runs, Run(FlowCommands[k], argv, returncode,
                                IF returncode = 0 THEN "ok"
                                ELSE IF exits THEN "error" ELSE "warning"))
    /\ IF exits THEN pc' = "exited" /\ exit_code' = 1
       ELSE /\ pc' = IF k = Len(FlowCommands) THEN "completed" ELSE StepPc(k + 1)
            /\ exit_code' = 0

FlowUnchanged ==
    UNCHANGED <<site, fs0, fs, proc, argv, course_dictionary, crawlVars, aggVars, lastCall,
                nfail, reqFound, harnessVars>>

\* A step whose failure is an error.
FatalStep(k) ==
    /\ pc = StepPc(k)
    /\ \E outcome \in CommandOutcomes :
           AfterStep(k, run_command(outcome), ExitsOnError(run_command(outcome)))
    /\ FlowUnchanged

\* A step whose failure is a warning.
WarningStep(k) ==
    /\ pc = StepPc(k)
    /\ \E outcome \in CommandOutcomes :
           AfterStep(k, run_command(outcome), WarnsOnError(run_command(outcome)))
    /\ FlowUnchanged

\* main up to step 1: without a URL argument it prints the usage and exits.
FlowMain ==
    /\ pc = "idle"
    /\ proc' = "flow"
    /\ \E url \in Urls \cup {None} :
        /\ argv' = url
        /\ IF url = None
           THEN pc' = "exited" /\ exit_code' = 1
           ELSE pc' = StepPc(1) /\ exit_code' = 0
    /\ UNCHANGED <<site, fs0, fs, course_dictionary, crawlVars, aggVars, lastCall, nfail,
                   runs, reqFound, harnessVars>>

\* STEP 1: python3 create_course_dictionary.py catalog_url
CreateCourseDictionaryStep == FatalStep(1)

\* STEP 2: python3 get_catalog_summary_json.py catalog_url
JsonSummaryStep == FatalStep(2)

\* STEP 3: python3 print_catalog_summary.py json_filename
PrintSummaryStep == FatalStep(3)

\* STEP 4: python3 create_catalog_summary_pdf.py json_filename
PdfStep == WarningStep(4)

\* STEP 5: python3 create_summary_graph.py json_filename
DotGraphStep == FatalStep(5)

\* STEP 6: dot -Tsvg dot_filename -o svg_filename
SvgStep == WarningStep(6)

\* STEP 7: python3 get_dependencies_pdf.py json_filename, then the completion
\* message.
DependencyPdfStep == WarningStep(7)

InitFlow ==
    /\ site = 1
    /\ fs0 = <<>>
    /\ fs = <<>>
    /\ PipelineIdle
    /\ HarnessIdle

NextFlow ==
    \/ FlowMain
    \/ CreateCourseDictionaryStep
    \/ JsonSummaryStep
    \/ PrintSummaryStep
    \/ PdfStep
    \/ DotGraphStep
    \/ SvgStep
    \/ DependencyPdfStep

SpecFlow == InitFlow /\ [][NextFlow]_vars

\* The workflow when every command it starts comes to an end.
SpecFlowLive == SpecFlow /\ WF_vars(NextFlow)

(***************************************************************************)
(* Properties of the pipeline                                              *)
(***************************************************************************)

LastRun == runs[Len(runs)]

\* The summary generation ran to its end: json_output is the aggregate.
Written ==
    /\ proc = "summary"
    /\ pc = "exited"
    /\ Len(runs) > 0
    /\ LastRun.script = "summary"
    /\ LastRun.reason = "written"

\* The build of url ran first, crawled, and its dictionary file is there.
BuiltFirst(url) ==
    /\ Len(runs) >= 1
    /\ runs[1] = Run("build", url, 0, "built")
    /\ path_exists(BUILD_COURSE_DICT_FILE)

\* The (school, program) places of an aggregate's schools.
ProgramPlaces(schools) ==
    UNION {{<<s, p>> : p \in 1..Len(schools[s].programs)} : s \in 1..Len(schools)}

ProgramAt(schools, sp) == schools[sp[1]].programs[sp[2]]

RECURSIVE SeqSum(_)
SeqSum(ns) == IF ns = <<>> THEN 0 ELSE ns[1] + SeqSum(Tail(ns))

\* The sum over all schools and programs of the length of program_courses.
CourseCount(schools) ==
    SeqSum([s \in 1..Len(schools) |->
              SeqSum([p \in 1..Len(schools[s].programs) |->
                        Len(schools[s].programs[p].program_courses)])])

\* The sum over all courses of the length of prerequisites.
PrerequisiteCount(schools) ==
    SeqSum([s \in 1..Len(schools) |->
              SeqSum([p \in 1..Len(schools[s].programs) |->
                        SeqSum([c \in 1..Len(schools[s].programs[p].program_courses) |->
                                  Len(schools[s].programs[p].program_courses[c].prerequisites)])])])

\* C1: starting with no cache file, after the dictionary build for u crawled
\* (no fetch failing) and wrote its file, the summary generation for u finds
\* the dictionary: it does not end with 'dictionary not found'.
C1_SummaryFindsBuiltDictionary ==
    \A u \in Urls :
        (/\ fs0 = <<>>
         /\ nfail = 0
         /\ BuiltFirst(u)
         /\ Len(runs) = 2
         /\ runs[2].script = "summary"
         /\ runs[2].url = u)
        => runs[2].reason # "dictionary not found"

\* C2: on the site with one school, one program, a requirements and a courses
\* link and two course headings, one a prerequisite of the other, the build
\* followed by the summary generation (no fetch failing) gives an aggregate
\* with one school, one program, two program_courses and one prerequisite
\* entry, from the second course to the first.
C2_EndToEnd ==
    (/\ site = 1
     /\ fs0 = <<>>
     /\ nfail = 0
     /\ BuiltFirst(URL_ROOT)
     /\ Len(runs) = 2
     /\ runs[2].script = "summary"
     /\ runs[2].url = URL_ROOT)
    => /\ runs[2].reason = "written"
       /\ Len(json_output.schools) = 1
       /\ Len(json_output.schools[1].programs) = 1
       /\ Len(json_output.schools[1].programs[1].program_courses) = 2
       /\ PrerequisiteCount(json_output.schools) = 1
       /\ json_output.schools[1].programs[1].program_courses[2].prerequisites
            = <<[course_id |-> json_output.schools[1].programs[1].program_courses[1].course_id,
                 course_title |-> json_output.schools[1].programs[1].program_courses[1].course_title]>>

\* An entry of a requirement_courses or prerequisites list is an item of d.
IsItemOf(e, d) ==
    \E i \in 1..Len(d) : d[i].id = e.course_id /\ d[i].title = e.course_title

RefsOfProgram(program) ==
    Range(program.requirement_courses)
    \cup UNION {Range(program.program_courses[c].prerequisites) :
                  c \in 1..Len(program.program_courses)}

\* C3: in the summary generation, every entry of every requirement_courses
\* and prerequisites list, of the schools collected so far and of the
\* aggregate, has a key of the loaded course dictionary as course_id and that
\* key's value as course_title.
C3_RefsAreDictionaryItems ==
    proc = "summary" =>
        /\ \A sp \in ProgramPlaces(schools_dict) :
             \A e \in RefsOfProgram(ProgramAt(schools_dict, sp)) :
                IsItemOf(e, course_dictionary)
        /\ json_output # NoJson =>
             \A sp \in ProgramPlaces(json_output.schools) :
                \A e \in RefsOfProgram(ProgramAt(json_output.schools, sp)) :
                   IsItemOf(e, course_dictionary)

\* The aggregate holds a requirement course and a prerequisite, and the
\* requirements text named a course (BIO-102) the dictionary does not hold.
C3_Witness ==
    /\ Written
    /\ site = 1
    /\ course_dictionary = OLD_DICT
    /\ Len(json_output.schools) = 1
    /\ Len(json_output.schools[1].programs[1].requirement_courses) = 1
    /\ PrerequisiteCount(json_output.schools) = 1

\* C4: in the aggregate, total_courses is the number of raw course
\* extractions, and the sum over all programs of the length of
\* program_courses.
C4_TotalCourses ==
    Written =>
        /\ json_output.total_courses = Len(all_courses_data)
        /\ json_output.total_courses = CourseCount(json_output.schools)

\* An aggregate of three extractions in two programs, made with a dictionary
\* of one course.
C4_Witness ==
    /\ Written
    /\ json_output.total_courses = 3
    /\ Len(json_output.schools) = 1
    /\ Len(json_output.schools[1].programs) = 2
    /\ Len(course_dictionary) = 1

\* C5: when no fetch failed, every program whose Program Requirements link
\* was found is a program of the aggregate.
C5_EveryProgramAppears ==
    (Written /\ nfail = 0) =>
        \A found \in reqFound :
            \E sp \in ProgramPlaces(json_output.schools) :
                /\ json_output.schools[sp[1]].school_url = found[1]
                /\ ProgramAt(json_output.schools, sp).program_name = found[2]

\* A script starts in this step.
StartStep == pc \in {"idle", "exited"} /\ (runs' # runs \/ pc' = "discover")

\* The build ends its crawl in this step.
BuildEndStep == proc = "build" /\ pc # "exited" /\ pc' = "exited" /\ exit_code' = 0

\* The build's cache file exists and holds a non-empty mapping.
CacheHolds ==
    /\ path_exists(BUILD_COURSE_DICT_FILE)
    /\ PickleLoads(BUILD_COURSE_DICT_FILE)
    /\ fs[BUILD_COURSE_DICT_FILE].data # EmptyDict

\* The build's cache file is absent or holds an empty mapping.
CacheAbsentOrEmpty ==
    \/ ~path_exists(BUILD_COURSE_DICT_FILE)
    \/ /\ PickleLoads(BUILD_COURSE_DICT_FILE)
       /\ fs[BUILD_COURSE_DICT_FILE].data = EmptyDict

\* The build reuses the mapping of its cache file: the script is over at
\* once, with no fetch, the mapping as the file holds it and the file as it was.
ReusedVerbatim ==
    /\ pc' = "exited"
    /\ exit_code' = 0
    /\ lastCall' = NoCall
    /\ nfail' = nfail
    /\ course_dictionary' = fs[BUILD_COURSE_DICT_FILE].data
    /\ fs' = fs

CacheFailure(url) ==
    \/ ~path_exists(SUMMARY_COURSE_DICT_FILE(url))
    \/ ~PickleLoads(SUMMARY_COURSE_DICT_FILE(url))

\* C7: a summary generation that starts on a missing or corrupt cache file
\* aborts: the script is over at once with a non-zero status, no page is
\* fetched and no file is written.
C7_CacheFailureIsFatal ==
    [][(StartStep /\ proc' = "summary" /\ CacheFailure(argv')) =>
          /\ pc' = "exited"
          /\ exit_code' # 0
          /\ lastCall' = NoCall
          /\ fs' = fs]_vars

\* What each fetching operation returns when it got no page.
DefaultOf(op) ==
    CASE op \in {"discover", "school", "extract", "requirements"} -> <<>>
      [] op \in {"find_req", "find_courses"} -> None
      [] op = "school_name" -> s_Unknown_School

\* C10: no script ends on an exception out of a fetch, and a fetching
\* operation whose fetch failed (timeout, connection error, non-2xx status)
\* returned its default: no links, no link, no courses, "Unknown School", no
\* course ids.
C10_FetchFailuresGiveDefaults ==
    /\ \A r \in 1..Len(runs) : runs[r].reason # "exception"
    /\ (lastCall # NoCall /\ lastCall.outcome # "ok") =>
          IF lastCall.op = "filter" THEN lastCall.returned = {}
          ELSE lastCall.returned = DefaultOf(lastCall.op)

\* The fetch of the school-name lookup failed, and the summary generation
\* went on to write its aggregate, the school named "Unknown School".
C10_Witness ==
    /\ Written
    /\ nfail = 1
    /\ Len(json_output.schools) = 1
    /\ json_output.schools[1].school_name = s_Unknown_School
    /\ Len(json_output.schools[1].programs) = 1

(***************************************************************************)
(* Properties of the resolver                                              *)
(***************************************************************************)

\* A string with its spaces and hyphens removed.
Squeezed(s) == SelectSeq(s, LAMBDA c : c \notin {" ", "-"})

\* The course-code tokens of a text: the matches of the pattern in the
\* upper-cased text, in order of appearance.
Tokens(text) == re_findall(str_upper(text))

\* The key's form with spaces and hyphens removed and upper-cased is the
\* token with spaces and hyphens removed.
KeyMatches(key, token) == str_upper(Squeezed(key)) = Squeezed(token)

HasKey(token, d) == \E i \in 1..Len(d) : KeyMatches(d[i].id, token)

\* The first key of d, in d's iteration order, that matches the token.
FirstMatchingKey(token, d) ==
    d[CHOOSE i \in 1..Len(d) :
          /\ KeyMatches(d[i].id, token)
          /\ \A j \in 1..(i - 1) : ~KeyMatches(d[j].id, token)].id

\* The tokens that match some key of d, in order of appearance.
ResolvedTokens(text, d) == SelectSeq(Tokens(text), LAMBDA t : HasKey(t, d))

\* value holds, for each of the tokens, the first key of d that matches it.
FirstKeysOf(value, tokens, d) ==
    /\ Len(value) = Len(tokens)
    /\ \A k \in 1..Len(value) : value[k] = FirstMatchingKey(tokens[k], d)

\* C8: parse_prerequisite_courses(text, D) is [] for an absent or empty
\* text; otherwise it holds, for each token of the text that matches a key
\* of D, in order of appearance and once per occurrence, the first key of D
\* that matches it.  With D = {"CHEM-104L": "General Chemistry"} the text
\* "Prerequisite: CHEM 104L or permission" gives ["CHEM-104L"].
C8_ParsePrerequisiteCourses ==
    ret.op = "parse" =>
        /\ arg_text \in {None, EmptyStr} => ret.value = <<>>
        /\ arg_text \notin {None, EmptyStr} =>
             FirstKeysOf(ret.value, ResolvedTokens(arg_text, arg_dict), arg_dict)
        /\ (arg_text = TEXT_CHEM /\ arg_dict = DICT_CHEM) => ret.value = <<<<"C", "H", "E", "M", "-", "1", "0", "4", "L">>>>
        /\ (arg_text = TEXT_TWICE /\ Len(arg_dict) = 1 /\ arg_dict[1].id = <<"A", "B", "C", "-", "1", "2", "3">>) =>
             ret.value = <<<<"A", "B", "C", "-", "1", "2", "3">>, <<"A", "B", "C", "-", "1", "2", "3">>>>

\* A text that names one course twice, and a dictionary with two keys of that
\* course's form: two entries, both the first of the two keys.
C8_Witness ==
    /\ ret.op = "parse"
    /\ Len(Tokens(arg_text)) = 2
    /\ Len(arg_dict) = 2
    /\ KeyMatches(arg_dict[1].id, Tokens(arg_text)[1])
    /\ KeyMatches(arg_dict[2].id, Tokens(arg_text)[1])
    /\ ret.value = <<arg_dict[1].id, arg_dict[1].id>>

\* The keys of d that match as key does and come no later than it, and the
\* places, up to place t, of the tokens that match key.
KeysUpTo(key, d) ==
    {i \in 1..Len(d) :
        /\ str_upper(Squeezed(d[i].id)) = str_upper(Squeezed(key))
        /\ \A j \in 1..Len(d) : d[j].id = key => i <= j}

TokensUpTo(key, tokens, t) == {u \in 1..t : KeyMatches(key, tokens[u])}

\* The place of the token at which key is first matched: a key that is the
\* n-th of the keys with its form is matched by the n-th token with that
\* form; 0 when the text has no such token.
FirstMatchedAt(key, tokens, d) ==
    IF \E t \in 1..Len(tokens) :
          /\ KeyMatches(key, tokens[t])
          /\ Cardinality(TokensUpTo(key, tokens, t)) = Cardinality(KeysUpTo(key, d))
    THEN CHOOSE t \in 1..Len(tokens) :
          /\ KeyMatches(key, tokens[t])
          /\ Cardinality(TokensUpTo(key, tokens, t)) = Cardinality(KeysUpTo(key, d))
    ELSE 0

\* value holds no id twice, and holds the keys of d that some token is first
\* matched to, in the order of those tokens.
FirstMatchesOf(value, tokens, d) ==
    /\ \A a, b \in 1..Len(value) : a # b => value[a] # value[b]
    /\ \A i \in 1..Len(d) :
         (FirstMatchedAt(d[i].id, tokens, d) # 0)
           <=> (\E k \in 1..Len(value) : value[k] = d[i].id)
    /\ \A a, b \in 1..Len(value) :
         a < b => FirstMatchedAt(value[a], tokens, d) < FirstMatchedAt(value[b], tokens, d)

\* C9: the list of course ids extracted from a requirements page holds no id
\* twice; it holds the keys of the dictionary that some token of the page
\* text is first matched to, in the order of those tokens.
C9_ExtractCourseIds ==
    ret.op = "extract" => FirstMatchesOf(ret.value, Tokens(arg_text), arg_dict)

\* A page text that names one course twice, and a dictionary with one key
\* for it: the id is extracted once.
C9_Witness ==
    /\ ret.op = "extract"
    /\ Len(Tokens(arg_text)) = 2
    /\ Len(arg_dict) = 1
    /\ KeyMatches(arg_dict[1].id, Tokens(arg_text)[1])
    /\ KeyMatches(arg_dict[1].id, Tokens(arg_text)[2])
    /\ ret.value = <<arg_dict[1].id>>

(***************************************************************************)
(* Properties of the page fetcher and of the crawl                         *)
(***************************************************************************)

\* A fetch is issued in this step.
FetchStep == lastCall' # lastCall /\ lastCall' # NoCall

\* C11: fetches are issued one at a time, and between two consecutive
\* fetches of a run the fixed delay has elapsed: when a fetch is issued after
\* an earlier fetch of the run, that earlier fetch slept before it returned,
\* whether it succeeded or failed.
C11_DelayBetweenFetches ==
    [][(FetchStep /\ lastCall # NoCall) => lastCall.slept]_vars

\* The operations of the crawl that fetch a page.
CrawlOps == {"discover", "filter", "school", "find_req", "find_courses", "extract"}

\* The fetch of this step, made by op, failed.
FailedFetch(op) == FetchStep /\ lastCall'.op = op /\ lastCall'.outcome # "ok"

\* The program loop is at its next entry, or the school loop at its next.
NextSibling ==
    \/ nav_i' = nav_i + 1 /\ school_i' = school_i
    \/ nav_i' = 0 /\ school_i' = school_i + 1

\* What the step of a failed fetch leaves of the page's subtree: nothing.
Forfeits(op) ==
    /\ course_dictionary' = course_dictionary
    /\ all_courses_data' = all_courses_data
    /\ pc' \notin {"exited", "hung"}
    /\ runs' = runs
    /\ CASE op = "discover" -> YOUR_URLS' = <<>> /\ pc' = "filter"
         [] op = "filter" -> filtered' = <<>> /\ pc' = "school"
         [] op = "school" -> sidebar_links' = <<>> /\ school_i' = school_i + 1
         [] OTHER -> NextSibling

\* Within a run the loops only move forward: no page position comes twice.
LoopAdvances ==
    \/ school_i' > school_i
    \/ school_i' = school_i /\ nav_i' >= nav_i

\* C12: no retries. The step of a crawl operation whose one fetch failed
\* adds nothing to the dictionary or to the collected courses, leaves the
\* operation's result empty, does not end the run and moves on to the next
\* sibling page; and the loops never go back to a page they have passed.
C12_NoRetries ==
    [][/\ ~StartStep => LoopAdvances
       /\ \A op \in CrawlOps : FailedFetch(op) => Forfeits(op)]_vars

\* The summary could not fetch the courses page of a school's first program
\* and is at the school's second program, with no course collected.
C12_Witness ==
    /\ proc = "summary"
    /\ pc = "find_req"
    /\ nav_i = 2
    /\ lastCall # NoCall
    /\ lastCall.op = "extract"
    /\ lastCall.outcome # "ok"
    /\ all_courses_data = <<>>

(***************************************************************************)
(* Properties of the aggregation                                           *)
(***************************************************************************)

\* The schools have pairwise distinct school_url values, and the programs of
\* each school pairwise distinct program_name values.
DistinctSchoolsAndPrograms(schools) ==
    /\ \A a, b \in 1..Len(schools) :
          schools[a].school_url = schools[b].school_url => a = b
    /\ \A s \in 1..Len(schools) :
          \A a, b \in 1..Len(schools[s].programs) :
             schools[s].programs[a].program_name = schools[s].programs[b].program_name
                => a = b

\* The number of program records of the aggregation.
ProgramCount(schools) == Cardinality(ProgramPlaces(schools))

\* The requirement-courses extraction fetches in this step.
RequirementsStep == FetchStep /\ lastCall'.op = "requirements"

\* The aggregate-to-be after the step, and the aggregate once it is made.
AggregateDistinctAfter ==
    /\ DistinctSchoolsAndPrograms(schools_dict')
    /\ json_output' # NoJson => DistinctSchoolsAndPrograms(json_output'.schools)

\* C13: in the aggregate the school URLs are pairwise distinct and, within a
\* school, the program names; and inside a run a program record is made in
\* exactly the steps in which the requirement-courses extraction fetches the
\* requirements page: one fetch per record, one record per fetch.
C13_FirstSightingOnly ==
    [][/\ AggregateDistinctAfter
       /\ ~StartStep =>
            /\ ProgramCount(schools_dict') # ProgramCount(schools_dict) =>
                  /\ ProgramCount(schools_dict') = ProgramCount(schools_dict) + 1
                  /\ lastCall'.op = "requirements"
            /\ RequirementsStep =>
                  ProgramCount(schools_dict') = ProgramCount(schools_dict) + 1]_vars

\* A written aggregate of three extractions: one school with two programs,
\* one of the programs with two courses.  The later extractions of the school
\* made no second school record, the second course no second program record.
C13_Witness ==
    /\ Written
    /\ json_output.total_courses = 3
    /\ Len(json_output.schools) = 1
    /\ Len(json_output.schools[1].programs) = 2
    /\ \E pl \in ProgramPlaces(json_output.schools) :
          Len(ProgramAt(json_output.schools, pl).program_courses) = 2

(***************************************************************************)
(* Properties of normalize_url                                             *)
(***************************************************************************)

\* C14: normalize_url is idempotent: normalizing the value it returned gives
\* that value again, for every URL string.
C14_NormalizeIdempotent ==
    ret.op = "normalize" => normalize_url(ret.value) = ret.value

\* C15: normalize_url("HTTP://Example.edu/A/B?x=1#frag") is
\* "http://example.edu/a/b/": scheme and host folded to lower case, the path
\* segments lower-cased as in the expected value, query and fragment dropped,
\* a trailing slash added.
C15_NormalizeExample ==
    (ret.op = "normalize" /\ arg_text = URL_EXAMPLE) => ret.value = URL_EXAMPLE_EXPECTED

\* No upper-case letter in s.
IsLowerCase(s) == \A i \in 1..Len(s) : s[i] \notin UpperLetters

\* The last path segment: what follows the path's last "/".
LastSegment(path) == SubSeq(path, LastSlash(path) + 1, Len(path))

\* The NormalizedURL invariant on the parts of a URL.
NormalizedParts(p) ==
    /\ IsLowerCase(p.scheme)
    /\ IsLowerCase(p.netloc)
    /\ p.query = <<>>
    /\ p.fragment = <<>>
    /\ p.path # <<>>
    /\ Last(p.path) = "/" <=> "." \notin Range(LastSegment(p.path))

\* C16: every value normalize_url returns is a NormalizedURL: read as a URL,
\* its scheme and host are lower case, it has no query and no fragment, and
\* its path, never empty, ends with a slash if and only if the last path
\* segment contains no dot.
C16_NormalizedURL ==
    ret.op = "normalize" =>
        /\ "?" \notin Range(ret.value)
        /\ "#" \notin Range(ret.value)
        /\ NormalizedParts(urlparse(ret.value))

(***************************************************************************)
(* Properties of remove_parenthetical                                      *)
(***************************************************************************)

\* The characters of s from position i on that lie outside every
\* parenthetical span, in order; depth is the number of spans open at i.  A
\* ")" that closes no span is a character like any other.
RECURSIVE OutsideFrom(_, _, _)
OutsideFrom(s, i, depth) ==
    IF i > Len(s) THEN <<>>
    ELSE IF s[i] = "(" THEN OutsideFrom(s, i + 1, depth + 1)
    ELSE IF s[i] = ")" /\ depth > 0 THEN OutsideFrom(s, i + 1, depth - 1)
    ELSE IF depth > 0 THEN OutsideFrom(s, i + 1, depth)
    ELSE <<s[i]>> \o OutsideFrom(s, i + 1, 0)

\* The words of s (its maximal runs without whitespace) from position i on,
\* word being the run that ends before i.
RECURSIVE WordsFrom(_, _, _)
WordsFrom(s, i, word) ==
    IF i > Len(s) THEN (IF word = <<>> THEN <<>> ELSE <<word>>)
    ELSE IF IsSpace(s[i])
         THEN (IF word = <<>> THEN <<>> ELSE <<word>>) \o WordsFrom(s, i + 1, <<>>)
    ELSE WordsFrom(s, i + 1, Append(word, s[i]))

\* The words joined by single blanks.
RECURSIVE Spaced(_)
Spaced(words) ==
    IF words = <<>> THEN <<>>
    ELSE IF Len(words) = 1 THEN words[1]
    ELSE words[1] \o <<" ">> \o Spaced(Tail(words))

\* C17: when remove_parenthetical returns, its value is the text outside all
\* parenthetical spans, nested ones included, characters in order, every run
\* of whitespace as one blank and none at either end; it holds no "(".
\* remove_parenthetical("Intro (to) Systems ((nested))") is "Intro Systems".
C17_RemoveParenthetical ==
    (ret.op = "remove_parenthetical" /\ ret.value # Hang) =>
        /\ ret.value = Spaced(WordsFrom(OutsideFrom(arg_text, 1, 0), 1, <<>>))
        /\ "(" \notin Range(ret.value)
        /\ arg_text = TEXT_INTRO => ret.value = TEXT_INTRO_EXPECTED

\* The call on the example returned: a span, a nested span, and two blanks in
\* a row once the spans are gone.
C17_Witness ==
    /\ ret.op = "remove_parenthetical"
    /\ arg_text = TEXT_INTRO
    /\ ret.value = TEXT_INTRO_EXPECTED

(***************************************************************************)
(* Properties of the navigation discovery                                  *)
(***************************************************************************)

\* The path's segments end with an 'undergraduate' segment and one slug.
IsSectionPath(parts) ==
    /\ Len(parts) >= 2
    /\ parts[Len(parts) - 1] = s_undergraduate

\* A list of strings in ascending order without duplicates.
StrictlySorted(urls) == \A k \in 1..(Len(urls) - 1) : str_lt(urls[k], urls[k + 1])

\* C18: candidate discovery, in the dictionary build and in the summary
\* generation, returns only URLs under the catalog's year-scoped prefix whose
\* path is the top-level section pattern (an 'undergraduate' segment and one
\* slug segment); the result is normalized, duplicate-free and sorted.
C18_CandidatesMatchSection ==
    (lastCall # NoCall /\ lastCall.op = "discover") =>
        /\ \A k \in 1..Len(lastCall.returned) :
              /\ str_startswith(lastCall.returned[k], get_year_root(lastCall.url))
              /\ IsSectionPath(path_parts(urlparse(lastCall.returned[k]).path))
              /\ normalize_url(lastCall.returned[k]) = lastCall.returned[k]
        /\ StrictlySorted(lastCall.returned)

\* The anchors with an href inside the first <div id="sidebar"> of the page,
\* whatever their text, as normalized absolute URLs.
SidebarAnchorTargets(html, page_url) ==
    {normalize_url(urljoin(page_url, html.anchors[k].href)) :
        k \in {j \in 1..Len(html.anchors) :
                 /\ html.anchors[j].href # None
                 /\ html.anchors[j].region # 0
                 /\ SelDivId(html.regions[html.anchors[j].region])
                 /\ \A q \in 1..(html.anchors[j].region - 1) : ~SelDivId(html.regions[q])}}

\* The candidates, in their order, whose normalized form is among the targets.
Retained(urls, targets) == SelectSeq(urls, LAMBDA u : normalize_url(u) \in targets)

\* C19: filter_urls_by_sidebar of the summary generation keeps, in input
\* order, exactly the candidates whose normalized form is the normalized
\* target of some anchor inside the page's sidebar, whatever the anchor's
\* text; when the fetch fails the result is empty.  (Stated for a summary
\* generation that loaded a dictionary.)
C19_FilterKeepsSidebarTargets ==
    (/\ proc = "summary"
     /\ course_dictionary # EmptyDict
     /\ pc = "school"
     /\ lastCall # NoCall
     /\ lastCall.op = "filter") =>
        IF lastCall.outcome = "ok"
        THEN filtered = Retained(YOUR_URLS, SidebarAnchorTargets(SitePage(argv), argv))
        ELSE filtered = <<>>

\* The first region of the page that has p, 0 when none has.
FirstRegionWith(html, p(_)) ==
    IF \E r \in 1..Len(html.regions) : p(html.regions[r])
    THEN CHOOSE r \in 1..Len(html.regions) :
             p(html.regions[r]) /\ \A q \in 1..(r - 1) : ~p(html.regions[q])
    ELSE 0

HasSidebarId(e) == e.id = s_sidebar

HasNavigationRole(e) == e.role = s_navigation

HasSidebarClass(e) == e.class = s_sidebar

\* The side-navigation region by the order identifier, role, class.
RegionByIdRoleClass(html) ==
    IF FirstRegionWith(html, HasSidebarId) # 0 THEN FirstRegionWith(html, HasSidebarId)
    ELSE IF FirstRegionWith(html, HasNavigationRole) # 0
         THEN FirstRegionWith(html, HasNavigationRole)
    ELSE FirstRegionWith(html, HasSidebarClass)

\* The normalized targets of the anchors with an href inside region r.
RegionTargets(html, page_url, r) ==
    {normalize_url(urljoin(page_url, html.anchors[k].href)) :
        k \in {j \in 1..Len(html.anchors) :
                 html.anchors[j].href # None /\ r # 0 /\ html.anchors[j].region = r}}

\* C20: the side-navigation region is the first match of the selectors tried
\* in the order identifier, role, class: the sidebar links the dictionary
\* build's filter gets from a fetched page are the links of that region.  On
\* a page without the identifier but with a role-matched and a class-matched
\* element, they are the links of the role-matched element.
C20_SidebarByIdRoleClass ==
    (/\ proc = "build"
     /\ lastCall # NoCall
     /\ lastCall.op = "filter"
     /\ lastCall.outcome = "ok") =>
        lastCall.returned =
            RegionTargets(SitePage(lastCall.url), lastCall.url,
                          RegionByIdRoleClass(SitePage(lastCall.url)))

(***************************************************************************)
(* Link lookup                                                             *)
(***************************************************************************)

\* The substring each link lookup of the crawl searches for.
NeedleOf(op) == IF op = "find_req" THEN s_Program_Requirements ELSE s_Courses

\* The anchors of a page that have a target and whose text contains s,
\* letter case aside.
Qualifying(html, s) ==
    {k \in 1..Len(html.anchors) :
        /\ html.anchors[k].href # None
        /\ str_contains(str_upper(html.anchors[k].text), str_upper(s))}

\* The target of the first qualifying anchor, absent when there is none.
FirstQualifying(html, page_url, s) ==
    IF Qualifying(html, s) = {} THEN None
    ELSE urljoin(page_url,
                 html.anchors[CHOOSE k \in Qualifying(html, s) :
                                  \A j \in Qualifying(html, s) : k <= j].href)

\* C21: find_link returns the target, resolved against the page URL, of the
\* first anchor in document order whose text contains the substring, letter
\* case aside; it returns absent when no anchor qualifies or the fetch
\* failed.
C21_FindLink ==
    (lastCall # NoCall /\ lastCall.op \in {"find_req", "find_courses"}) =>
        IF lastCall.outcome = "ok"
        THEN lastCall.returned =
                 FirstQualifying(SitePage(lastCall.url), lastCall.url, NeedleOf(lastCall.op))
        ELSE lastCall.returned = None

\* The 'Courses' lookup on the chemistry page, where two anchors qualify and
\* the first does so only with letter case set aside, has returned the first
\* one's target.
C21_Witness ==
    /\ lastCall # NoCall
    /\ lastCall.op = "find_courses"
    /\ lastCall.outcome = "ok"
    /\ lastCall.url = URL_CHEM
    /\ Cardinality(Qualifying(SitePage(URL_CHEM), s_Courses)) = 2
    /\ lastCall.returned = URL_CHEM_COURSES

(***************************************************************************)
(* Invocation                                                              *)
(***************************************************************************)

\* C22: the catalog root URL is optional: a summary generation invoked
\* without a URL argument does not fail before the crawl starts (it goes on
\* with the default root URL).
C22_UrlIsOptional ==
    \A r \in 1..Len(runs) :
        (runs[r].script = "summary" /\ runs[r].url = None) => runs[r].reason # "IndexError"

\* C23: remove_parenthetical terminates on every input string, also on a
\* string with an opening bracket that has no closing one.
C23_RemoveParentheticalTerminates ==
    ret.op = "remove_parenthetical" => ret.value # Hang

(***************************************************************************)
(* The two resolvers compared                                              *)
(***************************************************************************)

\* A sequence with every element after its first occurrence removed.
RECURSIVE FirstOccurrences(_)
FirstOccurrences(ids) ==
    IF ids = <<>> THEN <<>>
    ELSE LET front == SubSeq(ids, 1, Len(ids) - 1)
         IN IF ids[Len(ids)] \in Range(front)
            THEN FirstOccurrences(front)
            ELSE Append(FirstOccurrences(front), ids[Len(ids)])

\* C24: the course ids extracted from a requirements page with visible text T
\* are parse_prerequisite_courses(T, D) with every repeated id after its
\* first occurrence removed: each token resolves to the first dictionary key
\* with its normalized form, on every occurrence of the token.
C24_ExtractIsParseWithoutRepeats ==
    ret.op = "extract" =>
        ret.value = FirstOccurrences(parse_prerequisite_courses(arg_text, arg_dict))

(***************************************************************************)
(* The keys of the dictionary                                              *)
(***************************************************************************)

\* C25: after a dictionary build, no two distinct keys of the course
\* dictionary have the same form with spaces and hyphens stripped and letters
\* in upper case.
C25_KeysUniqueWhenNormalized ==
    (proc = "build" /\ pc = "exited" /\ LastRun.reason = "built") =>
        \A i, j \in 1..Len(course_dictionary) :
            i # j => normalize_dict_id(course_dictionary[i].id)
                         # normalize_dict_id(course_dictionary[j].id)

(***************************************************************************)
(* Navigation entries with the same program name                           *)
(***************************************************************************)

\* The extractions, among the first n, of the entries of a school that carry
\* a program name, in extraction order.
RowsOf(school_url, program_name, n) ==
    SelectSeq(SubSeq(all_courses_data, 1, n),
              LAMBDA row : row.school_url = school_url /\ row.program_name = program_name)

\* The course record of an extraction: its id, its title, and its
\* prerequisites resolved against the dictionary.
RecordOf(row) ==
    [course_id |-> row.course_id,
     course_title |-> row.course_title,
     prerequisites |->
        CourseRefs(parse_prerequisite_courses(row.prerequisites, course_dictionary),
                   course_dictionary)]

\* A program record holds the links of the first extraction under its name
\* and one course record for each extraction aggregated so far.
HoldsItsRows(school_url, program, rows, done) ==
    /\ rows # <<>>
    /\ program.program_requirements_url = rows[1].prog_req_link
    /\ program.courses_url = rows[1].courses_link
    /\ program.program_courses = [k \in 1..Len(done) |-> RecordOf(done[k])]

\* Every program record of the aggregation holds its rows.
ProgramsHoldTheirRows ==
    (proc = "summary" /\ pc = "aggregate") =>
        \A s \in 1..Len(schools_dict) :
            \A p \in 1..Len(schools_dict[s].programs) :
                HoldsItsRows(schools_dict[s].school_url, schools_dict[s].programs[p],
                             RowsOf(schools_dict[s].school_url,
                                    schools_dict[s].programs[p].program_name,
                                    Len(all_courses_data)),
                             RowsOf(schools_dict[s].school_url,
                                    schools_dict[s].programs[p].program_name,
                                    cd_i - 1))

\* What a program record captured at its first sighting.
Captured(program) ==
    <<program.program_name, program.program_requirements_url, program.courses_url,
      program.requirement_courses>>

\* The step keeps what every program record captured, and the place of the
\* record.
KeepsCaptured ==
    \A s \in 1..Len(schools_dict) :
        \A p \in 1..Len(schools_dict[s].programs) :
            /\ Len(schools_dict') >= s
            /\ Len(schools_dict'[s].programs) >= p
            /\ Captured(schools_dict'[s].programs[p]) = Captured(schools_dict[s].programs[p])

\* The step makes a program record: its requirement courses are those the
\* extraction of this step returned.
CapturesAtFirstSighting ==
    \A s \in 1..Len(schools_dict) :
        Len(schools_dict'[s].programs) > Len(schools_dict[s].programs) =>
            /\ lastCall'.op = "requirements"
            /\ lastCall'.url = Last(schools_dict'[s].programs).program_requirements_url
            /\ Last(schools_dict'[s].programs).requirement_courses =
                   CourseRefs(lastCall'.returned, course_dictionary)
            /\ Last(schools_dict'[s].programs).program_courses = <<>>

\* C26: navigation entries of one school with the same program name share
\* one program record; its requirements link, courses link and requirement
\* courses are those of the first sighting and never change; the course
\* extractions of all the entries are appended to its program_courses in
\* extraction order, each with its own resolved prerequisites.
C26_SameProgramName ==
    /\ [](DistinctSchoolsAndPrograms(schools_dict) /\ ProgramsHoldTheirRows)
    /\ [][~StartStep => (KeepsCaptured /\ CapturesAtFirstSighting)]_vars

\* The aggregate of the school that lists 'Biology' twice: one program record
\* with the links of the first entry and the three courses of both entries,
\* the last one (of the second entry) with a resolved prerequisite.
C26_Witness ==
    /\ Written
    /\ Len(json_output.schools) = 1
    /\ Len(json_output.schools[1].programs) = 1
    /\ json_output.schools[1].programs[1].courses_url = URL_BIO_COURSES
    /\ json_output.schools[1].programs[1].program_requirements_url = URL_BIO_REQS
    /\ Len(json_output.schools[1].programs[1].program_courses) = 3
    /\ json_output.schools[1].programs[1].program_courses[3].prerequisites # <<>>
    /\ \E k \in 1..Len(all_courses_data) : all_courses_data[k].courses_link = URL_CHEM_COURSES

(***************************************************************************)
(* The order of the lookups of a navigation entry                          *)
(***************************************************************************)

\* The page at url is on the site and has an anchor whose text contains s.
Yields(url, s) == SiteHas(url) /\ Qualifying(SitePage(url), s) # {}

\* The 'Courses' lookup fetches in this step.
CoursesLookupStep == FetchStep /\ lastCall'.op = "find_courses"

\* The courses page is fetched in this step.
CoursesPageStep == FetchStep /\ lastCall'.op = "extract"

\* A course extraction is taken into the dictionary or into the rows of the
\* aggregate in this step.
Contributes ==
    /\ ~StartStep
    /\ course_dictionary' # course_dictionary \/ all_courses_data' # all_courses_data

\* C27: the 'Courses' link of a navigation entry is looked up only after the
\* lookup of 'Program Requirements' on the same page found a link; the
\* courses page is fetched only after both lookups found one; and an entry
\* contributes extractions only if its page yields both links.
C27_BothLinksFirst ==
    [][/\ CoursesLookupStep =>
            /\ lastCall # NoCall
            /\ lastCall.op = "find_req"
            /\ lastCall.outcome = "ok"
            /\ lastCall.returned # None
            /\ lastCall'.url = lastCall.url
            /\ Yields(lastCall.url, s_Program_Requirements)
       /\ CoursesPageStep =>
            /\ lastCall # NoCall
            /\ lastCall.op = "find_courses"
            /\ lastCall.outcome = "ok"
            /\ lastCall.returned # None
            /\ lastCall'.url = lastCall.returned
            /\ prog_req_link # None
            /\ Yields(lastCall.url, s_Program_Requirements)
            /\ Yields(lastCall.url, s_Courses)
       /\ Contributes =>
            /\ CoursesPageStep
            /\ Yields(sidebar_links[nav_i].url, s_Program_Requirements)
            /\ Yields(sidebar_links[nav_i].url, s_Courses)]_vars

\* The crawl went past the physics entry, whose page has a 'Program
\* Requirements' link and no 'Courses' link: the lookup of 'Courses' was
\* made and found nothing, and no extraction is from that entry.
C27_Witness ==
    /\ proc = "summary"
    /\ pc = "aggregate"
    /\ <<URL_ARTS, <<"P", "h", "y", "s", "i", "c", "s">>>> \in reqFound
    /\ lastCall # NoCall
    /\ lastCall.op = "find_courses"
    /\ lastCall.url = URL_PHYS
    /\ lastCall.outcome = "ok"
    /\ lastCall.returned = None
    /\ Len(all_courses_data) = 3
    /\ \A k \in 1..Len(all_courses_data) :
          all_courses_data[k].program_name # <<"P", "h", "y", "s", "i", "c", "s">>

(***************************************************************************)
(* The two crawls compared                                                 *)
(***************************************************************************)

\* The course ids of the program_courses entries of an aggregate's schools.
AggregatedCourseIds(schools) ==
    UNION {{ProgramAt(schools, pl).program_courses[k].course_id :
               k \in 1..Len(ProgramAt(schools, pl).program_courses)} :
           pl \in ProgramPlaces(schools)}

\* A dictionary build and then a summary generation of the same URL ran to
\* their ends with no failed fetch, the summary with a dictionary it loaded,
\* and the built dictionary is in its file.
BuiltThenWritten ==
    /\ Written
    /\ Len(runs) = 2
    /\ runs[1] = Run("build", LastRun.url, 0, "built")
    /\ nfail = 0
    /\ course_dictionary # EmptyDict
    /\ path_exists(BUILD_COURSE_DICT_FILE)
    /\ PickleLoads(BUILD_COURSE_DICT_FILE)

\* C28: on unchanged site content with every fetch successful, every
\* course_id of the aggregate's program_courses entries is a key of the
\* dictionary that the dictionary build made from the same site.
C28_AggregatedCoursesAreBuiltKeys ==
    BuiltThenWritten =>
        \A id \in AggregatedCourseIds(json_output.schools) :
            DictHas(ccd_load_course_dictionary(BUILD_COURSE_DICT_FILE), id)

(***************************************************************************)
(* Properties of the workflow                                              *)
(***************************************************************************)

\* The steps whose failure ends the workflow, and the others.
FatalSteps == {1, 2, 3, 5}

WarningSteps == {4, 6, 7}

\* C29: the workflow runs its steps in the order dictionary build, JSON
\* summary, text summary, PDF, DOT graph, SVG, dependency PDF, one at a time;
\* when the dictionary build, the JSON summary, the text summary or the DOT
\* graph step returned a nonzero code, the workflow has exited with status 1
\* and no later step was started.
C29_FixedOrderFatalSteps ==
    /\ Len(runs) <= Len(FlowCommands)
    /\ \A k \in 1..Len(runs) :
          /\ runs[k].script = FlowCommands[k]
          /\ (k \in FatalSteps /\ runs[k].code # 0) =>
                (Len(runs) = k /\ pc = "exited" /\ exit_code = 1)
    /\ (pc \in {StepPc(k) : k \in 1..Len(FlowCommands)}) => pc = StepPc(Len(runs) + 1)

\* The dictionary build was not found or failed: the workflow has exited with
\* status 1 and the JSON summary step never ran.
C29_Witness ==
    /\ proc = "flow"
    /\ pc = "exited"
    /\ exit_code = 1
    /\ Len(runs) = 1
    /\ runs[1].script = "create_course_dictionary.py"
    /\ runs[1].code # 0

\* The last step run is warning step k, and it failed.
WarningFailed(k) == Len(runs) = k /\ runs[k].code # 0

\* The workflow has printed its completion message.
Completed == pc = "completed" /\ exit_code = 0 /\ Len(runs) = Len(FlowCommands)

\* The workflow has exited with status 1: on the usage message, or on the
\* failure of a fatal step.
ExitedOnError ==
    (pc = "exited") =>
        /\ exit_code = 1
        /\ runs # <<>> => (Len(runs) \in FatalSteps /\ LastRun.code # 0)

\* C30: a failure of the PDF step, of the SVG step (the command not found,
\* code -1, included) or of the dependency-PDF step is only a warning: the
\* workflow does not exit on it, the next step is started, and when the DOT
\* graph step succeeds too the workflow reaches its completion message.
C30_WarningsOnly ==
    /\ []ExitedOnError
    /\ \A k \in WarningSteps :
          WarningFailed(k) ~> (Completed \/ Len(runs) > k)
    /\ \A k \in WarningSteps :
          WarningFailed(k) ~> (Completed \/ (Len(runs) = 5 /\ runs[5].code # 0))

\* The workflow completed although the PDF step failed, the SVG command was
\* not found and the dependency-PDF step failed.
C30_Witness ==
    /\ Completed
    /\ runs[4].code = 1
    /\ runs[6].code = -1
    /\ runs[7].code = 2
    /\ \A k \in FatalSteps : runs[k].code = 0

=============================================================================
